---- MODULE Spec2Model ----
(***************************************************************************)
(* Model of the wisp.place CLI manifest engine: deploy (build, dedup,      *)
(* split into subfs records, commit, cleanup) and pull (expand subfs,      *)
(* stage, swap).                                                           *)
(*                                                                         *)
(* Paths.  The code joins names with '/' (format!("{}/{}", ..)) and takes  *)
(* them apart with split('/') and find('/').  A path is modelled as the    *)
(* sequence of its segments: the empty string is <<>>, joining appends a   *)
(* segment, split('/') yields the segments.                                *)
(*                                                                         *)
(* Sizes.  estimate_directory_size is the length of the serde_json text.   *)
(* It is modelled structurally, one weight per JSON construct, so that a   *)
(* directory is always larger than any directory it contains.              *)
(***************************************************************************)
EXTENDS Integers, Sequences, FiniteSets, TLC

\* ------------------------------------------------------------------ bounds

\* Entry names a local directory may hold, in read_dir order.
Names == <<"x", "y", "z">>
\* The names whose entry an edit between two deploys may change.
EditNames == <<"x">>
\* File bodies on the local disk.
MaxContent == 2
Contents == 1..MaxContent
\* Deploy runs in one behaviour.
MaxDeploys == 2
\* Entry names the root of a remote site may hold in the pull model.
PullNames == <<"x", "y">>
\* Pull runs in one behaviour.
MaxPulls == 2

\* The length of the chain of nested subfs records a pull may meet: one more
\* than the rounds the expansion allows.
MaxChain == 11
\* Calls of pure functions in one behaviour.
MaxCalls == 2

\* --------------------------------------------------------- program constants
\* The budgets of deploy_site, scaled down to the size of the model's trees
\* (250, 200, 140 * 1024 and 50 in the source); every comparison is kept.
FILE_COUNT_THRESHOLD == 3
TARGET_FILE_COUNT == 2
MAX_MANIFEST_SIZE == 19
MAX_SPLIT_ATTEMPTS == 3

\* The fan-out bounds, scaled down likewise: buffer_unordered(5) around the
\* uploads of one directory, buffer_unordered(5) around the subfs fetches of
\* deploy, and DOWNLOAD_CONCURRENCY = 20 around the downloads of one directory.
UPLOAD_CONCURRENCY == 2
SUBFS_FETCH_CONCURRENCY == 2
DOWNLOAD_CONCURRENCY == 3

\* compute_cid: the length of a SHA-256 digest and the digest capacity of the
\* multihash of a Cid, in bytes.
SHA256_OUTPUT_SIZE == 32
MULTIHASH_CAPACITY == 64

\* JSON weights of estimate_directory_size: a file node, a subfs node, the
\* wrapper of a directory node, the wrapper of one entry.  They are chosen so
\* that a tree of FILE_COUNT_THRESHOLD files can stay within MAX_MANIFEST_SIZE
\* (as 250 file nodes stay within 140 KB) while a root can still exceed it.
FileJson == 4
SubfsJson == 5
DirJson == 1
EntryJson == 1

\* ------------------------------------------------------------------ helpers

EmptyMap == <<>>

\* HashMap::extend / insert: the later value wins.
MapExtend(m, s) ==
    [k \in (DOMAIN m) \cup (DOMAIN s) |-> IF k \in DOMAIN s THEN s[k] ELSE m[k]]

MapInsert(m, k, v) ==
    [j \in (DOMAIN m) \cup {k} |-> IF j = k THEN v ELSE m[j]]

RECURSIVE SumSeq(_)
SumSeq(s) ==
    IF s = <<>> THEN 0 ELSE Head(s) + SumSeq(Tail(s))

RECURSIVE Flatten(_)
Flatten(ss) ==
    IF ss = <<>> THEN <<>> ELSE Head(ss) \o Flatten(Tail(ss))

SeqRange(s) == {s[i] : i \in 1..Len(s)}

\* ---------------------------------------------------------------- tree model

\* What process_file builds: a gzip-encoded, base64 file.
FileNode(blob) == [type |-> "file", blob |-> blob, encoding |-> "gzip", base64 |-> TRUE]
DirectoryNode(entries) == [type |-> "directory", entries |-> entries]
SubfsNode(subject, flat) == [type |-> "subfs", subject |-> subject, flat |-> flat]
UnknownNode == [type |-> "unknown"]
Entry(name, node) == [name |-> name, node |-> node]

\* format!("{}/{}", current_path, name), or name when current_path is empty.
JoinPath(current_path, name) == current_path \o <<name>>

\* ------------------------------------------------------- content addressing

\* process_file: gzip, then base64.
GzipEncode(data) == <<"gz", data>>
Base64Encode(bytes) == <<"b64", bytes>>
CanonicalBytes(data) == Base64Encode(GzipEncode(data))

\* A CIDv0 string: base58, no multibase prefix.
compute_cid_v0(bytes) == <<"Qm", bytes>>

\* compute_cid: base32 CIDv1 (raw, sha2-256) of the bytes.
compute_cid(bytes) == <<"baf", bytes>>

\* compute_cid, step by step: Sha256::digest, Multihash::wrap(0x12, &hash)
\* with its expect, IpldCid::new_v1 and the base32 string.
Sha256Digest(content) == [size |-> SHA256_OUTPUT_SIZE, of |-> content]

MultihashWrap(code, digest) ==
    [ok |-> digest.size <= MULTIHASH_CAPACITY, code |-> code, digest |-> digest]

compute_cid_outcome(content) ==
    LET hash == Sha256Digest(content)
        multihash == MultihashWrap(18, hash)
    IN  IF multihash.ok
        THEN [ok |-> TRUE, cid |-> compute_cid(multihash.digest.of)]
        ELSE [ok |-> FALSE, cid |-> <<>>]

\* upload_blob: the blob reference the PDS returns names the bytes by their CID.
BlobRef(bytes) == [ref |-> compute_cid(bytes)]

\* ------------------------------------------------------------------ blob map

normalize_path(path) ==
    IF Len(path) > 1 THEN Tail(path) ELSE path

\* The entries one File node contributes to the map.
FileBlobEntries(full_path, blob) ==
    LET info == [blob |-> blob, cid |-> blob.ref]
        normalized_path == normalize_path(full_path)
        first == MapInsert(EmptyMap, normalized_path, info)
    IN  IF normalized_path # full_path THEN MapInsert(first, full_path, info) ELSE first

RECURSIVE extract_blob_map_recursive(_, _)
extract_blob_map_recursive(entries, current_path) ==
    IF entries = <<>> THEN EmptyMap
    ELSE LET entry == Head(entries)
             full_path == JoinPath(current_path, entry.name)
             here == CASE entry.node.type = "file" ->
                            FileBlobEntries(full_path, entry.node.blob)
                       [] entry.node.type = "directory" ->
                            extract_blob_map_recursive(entry.node.entries, full_path)
                       [] OTHER -> EmptyMap
         IN  MapExtend(here, extract_blob_map_recursive(Tail(entries), current_path))

extract_blob_map(directory) ==
    extract_blob_map_recursive(directory.entries, <<>>)

\* ------------------------------------------------------------- subfs_utils

RECURSIVE extract_subfs_uris(_, _)
extract_subfs_uris(entries, current_path) ==
    IF entries = <<>> THEN <<>>
    ELSE LET entry == Head(entries)
             full_path == JoinPath(current_path, entry.name)
             here == CASE entry.node.type = "subfs" ->
                            << <<entry.node.subject, full_path>> >>
                       [] entry.node.type = "directory" ->
                            extract_subfs_uris(entry.node.entries, full_path)
                       [] OTHER -> <<>>
         IN  here \o extract_subfs_uris(Tail(entries), current_path)

RECURSIVE extract_subfs_blobs(_, _)
extract_subfs_blobs(entries, current_path) ==
    IF entries = <<>> THEN EmptyMap
    ELSE LET entry == Head(entries)
             full_path == JoinPath(current_path, entry.name)
             here == CASE entry.node.type = "file" ->
                            MapInsert(EmptyMap, full_path,
                                      [blob |-> entry.node.blob, cid |-> entry.node.blob.ref])
                       [] entry.node.type = "directory" ->
                            extract_subfs_blobs(entry.node.entries, full_path)
                       [] OTHER -> EmptyMap
         IN  MapExtend(here, extract_subfs_blobs(Tail(entries), current_path))

RECURSIVE count_files_in_directory(_)
count_files_in_directory(directory) ==
    SumSeq([i \in 1..Len(directory.entries) |->
        LET node == directory.entries[i].node
        IN  CASE node.type = "file" -> 1
              [] node.type = "directory" -> count_files_in_directory(node)
              [] OTHER -> 0])

RECURSIVE estimate_directory_size(_)
estimate_directory_size(directory) ==
    DirJson + SumSeq([i \in 1..Len(directory.entries) |->
        LET node == directory.entries[i].node
        IN  EntryJson +
            CASE node.type = "file" -> FileJson
              [] node.type = "directory" -> estimate_directory_size(node)
              [] node.type = "subfs" -> SubfsJson
              [] OTHER -> 1])

\* Vec::sort_by(|a, b| b.size.cmp(&a.size)): stable, largest first.
RECURSIVE InsertBySize(_, _)
InsertBySize(sorted, d) ==
    IF sorted = <<>> THEN <<d>>
    ELSE IF Head(sorted).size >= d.size THEN <<Head(sorted)>> \o InsertBySize(Tail(sorted), d)
    ELSE <<d>> \o sorted

\* A sort that leaves the list in traversal order.
SortNone(s) == s

RECURSIVE SortBySizeDesc(_)
SortBySizeDesc(s) ==
    IF s = <<>> THEN <<>>
    ELSE InsertBySize(SortBySizeDesc(SubSeq(s, 1, Len(s) - 1)), s[Len(s)])

RECURSIVE find_large_directories(_, _)
find_large_directories(directory, current_path) ==
    SortBySizeDesc(Flatten([i \in 1..Len(directory.entries) |->
        LET entry == directory.entries[i]
            dir_path == JoinPath(current_path, entry.name)
        IN  IF entry.node.type = "directory"
            THEN << [path |-> dir_path,
                     directory |-> entry.node,
                     size |-> estimate_directory_size(entry.node),
                     file_count |-> count_files_in_directory(entry.node)] >>
                 \o find_large_directories(entry.node, dir_path)
            ELSE <<>>]))

\* A replacement that looks for the last name of the path in the root only.
replace_in_root(directory, target_path, subfs_uri, flat) ==
    DirectoryNode([i \in 1..Len(directory.entries) |->
        IF directory.entries[i].name = target_path[Len(target_path)]
        THEN Entry(directory.entries[i].name, SubfsNode(subfs_uri, flat))
        ELSE directory.entries[i]])

RECURSIVE replace_directory_with_subfs(_, _, _, _)
replace_directory_with_subfs(directory, target_path, subfs_uri, flat) ==
    IF Len(target_path) = 1
    THEN DirectoryNode([i \in 1..Len(directory.entries) |->
            LET entry == directory.entries[i]
            IN  IF entry.name = target_path[1]
                THEN Entry(entry.name, SubfsNode(subfs_uri, flat))
                ELSE entry])
    ELSE DirectoryNode([i \in 1..Len(directory.entries) |->
            LET entry == directory.entries[i]
            IN  IF entry.name = target_path[1] /\ entry.node.type = "directory"
                THEN Entry(entry.name,
                           replace_directory_with_subfs(entry.node, Tail(target_path),
                                                        subfs_uri, flat))
                ELSE entry])

\* ------------------------------------------------------------ local disk

Absent == [type |-> "absent"]
LocalFile(data) == [type |-> "file", data |-> data]
LocalDir(entries) == [type |-> "dir", entries |-> entries]

\* The entries of a directory that holds, for each name, what f says.
RECURSIVE EntriesOf(_, _)
EntriesOf(names, f) ==
    IF names = <<>> THEN <<>>
    ELSE (IF f[Head(names)] = Absent THEN <<>> ELSE <<Entry(Head(names), f[Head(names)])>>)
         \o EntriesOf(Tail(names), f)

\* Subdirectories: empty, one file, two files, three files, and one with a
\* nested directory.
SubDirs ==
    {LocalDir(<<>>),
     LocalDir(<<Entry("x", LocalFile(1))>>),
     LocalDir(<<Entry("x", LocalFile(1)), Entry("y", LocalFile(1))>>),
     LocalDir(<<Entry("x", LocalFile(1)), Entry("y", LocalFile(1)), Entry("z", LocalFile(1))>>),
     LocalDir(<<Entry("y", LocalDir(<<Entry("x", LocalFile(1))>>))>>)}

\* A site of four subdirectories of one file each: more directories than the
\* split loop has attempts.
WideTree ==
    LocalDir(<<Entry("w", LocalDir(<<Entry("x", LocalFile(1))>>)),
               Entry("x", LocalDir(<<Entry("x", LocalFile(1))>>)),
               Entry("y", LocalDir(<<Entry("x", LocalFile(1))>>)),
               Entry("z", LocalDir(<<Entry("x", LocalFile(1))>>))>>)

LocalTrees ==
    {LocalDir(EntriesOf(Names, f)) :
        f \in [SeqRange(Names) -> {Absent} \cup {LocalFile(c) : c \in Contents} \cup SubDirs]}
    \cup {WideTree}

\* ---------------------------------------------------------- build (deploy)

NoPath == <<>>

\* A mutant of process_file: a blob is reused whenever the path is known, whatever
\* its content id.
process_file_any_cid(data, file_path_key, existing_blobs, failing) ==
    LET base64_bytes == CanonicalBytes(data)
    IN  IF file_path_key = failing
        THEN [ok |-> FALSE, node |-> UnknownNode, reused |-> FALSE, uploads |-> <<>>]
        ELSE IF file_path_key \in DOMAIN existing_blobs
        THEN [ok |-> TRUE, node |-> FileNode(existing_blobs[file_path_key].blob),
              reused |-> TRUE, uploads |-> <<>>]
        ELSE [ok |-> TRUE, node |-> FileNode(BlobRef(base64_bytes)),
              reused |-> FALSE, uploads |-> <<file_path_key>>]

\* process_file.  failing is the path of the file whose read or upload fails.
process_file(data, file_path_key, existing_blobs, failing) ==
    LET base64_bytes == CanonicalBytes(data)
        file_cid == compute_cid(base64_bytes)
    IN  IF file_path_key = failing
        THEN [ok |-> FALSE, node |-> UnknownNode, reused |-> FALSE, uploads |-> <<>>]
        ELSE IF file_path_key \in DOMAIN existing_blobs
                /\ existing_blobs[file_path_key].cid = file_cid
        THEN [ok |-> TRUE, node |-> FileNode(existing_blobs[file_path_key].blob),
              reused |-> TRUE, uploads |-> <<>>]
        ELSE [ok |-> TRUE, node |-> FileNode(BlobRef(base64_bytes)),
              reused |-> FALSE, uploads |-> <<file_path_key>>]

\* build_directory skips .git; files go to file_tasks and directories to dir_tasks.
file_tasks(dir) ==
    SelectSeq(dir.entries, LAMBDA e : e.name # ".git" /\ e.node.type = "file")

dir_tasks(dir) ==
    SelectSeq(dir.entries, LAMBDA e : e.name # ".git" /\ e.node.type = "dir")

BoolCount(b) == IF b THEN 1 ELSE 0

RECURSIVE build_directory(_, _, _, _)
RECURSIVE build_subdirectories(_, _, _, _)

\* The for loop over dir_tasks: one subdirectory after the other, stopping at
\* the first error.
build_subdirectories(tasks, existing_blobs, current_path, failing) ==
    IF tasks = <<>>
    THEN [ok |-> TRUE, entries |-> <<>>, total_files |-> 0, reused_count |-> 0,
          uploads |-> <<>>]
    ELSE LET first == build_directory(Head(tasks).node, existing_blobs,
                                      JoinPath(current_path, Head(tasks).name), failing)
         IN  IF ~first.ok
             THEN [ok |-> FALSE, entries |-> <<>>, total_files |-> 0, reused_count |-> 0,
                   uploads |-> first.uploads]
             ELSE LET rest == build_subdirectories(Tail(tasks), existing_blobs,
                                                   current_path, failing)
                  IN  [ok |-> rest.ok,
                       entries |-> <<Entry(Head(tasks).name, first.directory)>> \o rest.entries,
                       total_files |-> first.total_files + rest.total_files,
                       reused_count |-> first.reused_count + rest.reused_count,
                       uploads |-> first.uploads \o rest.uploads]

build_directory(dir, existing_blobs, current_path, failing) ==
    LET files == file_tasks(dir)
        file_results == [i \in 1..Len(files) |->
            process_file(files[i].node.data, JoinPath(current_path, files[i].name),
                         existing_blobs, failing)]
        file_uploads == Flatten([i \in 1..Len(files) |-> file_results[i].uploads])
        files_ok == \A i \in 1..Len(files) : file_results[i].ok
        file_entries == [i \in 1..Len(files) |-> Entry(files[i].name, file_results[i].node)]
        file_reused == SumSeq([i \in 1..Len(files) |-> BoolCount(file_results[i].reused)])
    IN  IF ~files_ok
        THEN [ok |-> FALSE, directory |-> DirectoryNode(<<>>), total_files |-> 0,
              reused_count |-> 0, uploads |-> file_uploads]
        ELSE LET subs == build_subdirectories(dir_tasks(dir), existing_blobs,
                                              current_path, failing)
             IN  [ok |-> subs.ok,
                  directory |-> DirectoryNode(file_entries \o subs.entries),
                  total_files |-> Len(files) + subs.total_files,
                  reused_count |-> file_reused + subs.reused_count,
                  uploads |-> file_uploads \o subs.uploads]

\* The '/'-joined paths of the regular files build_directory visits.
RECURSIVE LocalFilePaths(_, _)
LocalFilePaths(dir, current_path) ==
    UNION {LET e == dir.entries[i]
           IN  IF e.name = ".git" THEN {}
               ELSE IF e.node.type = "file" THEN {JoinPath(current_path, e.name)}
               ELSE LocalFilePaths(e.node, JoinPath(current_path, e.name))
           : i \in 1..Len(dir.entries)}


\* ----------------------------------------------------- pull: subfs expansion

\* expand_subfs_in_pull, line 427; pull_site's download concurrency is not modelled here.
MAX_ITERATIONS == 10

\* extract_subfs_from_subfs_dir walks a subfs::Directory as extract_subfs_uris
\* walks an fs::Directory.
extract_subfs_from_subfs_dir(directory, current_path) ==
    extract_subfs_uris(directory.entries, current_path)

\* A key of all_subfs_map is a mount path; the filter at line 505 compares it,
\* as a string, with a URI.  No '/'-joined path of the model spells a subfs URI.
PathAsUri(path) == [collection |-> "path", rkey |-> path]

\* The fetch task of one URI succeeds: the record is there, the request goes
\* through and the collection is place.wisp.subfs.
FetchSucceeds(uri, records, fetchable) ==
    /\ uri.collection = "place.wisp.subfs"
    /\ uri \in DOMAIN records
    /\ uri \in fetchable

\* Lines 484-500: the results of one round, in order.
RECURSIVE ProcessResults(_, _, _, _, _)
ProcessResults(to_fetch, all_subfs_map, newly_fetched, records, fetchable) ==
    IF to_fetch = <<>> THEN [all_subfs_map |-> all_subfs_map, newly_fetched |-> newly_fetched]
    ELSE LET uri == Head(to_fetch)[1]
             path == Head(to_fetch)[2]
         IN  IF FetchSucceeds(uri, records, fetchable)
             THEN ProcessResults(Tail(to_fetch),
                      MapInsert(all_subfs_map, path, records[uri].root),
                      newly_fetched \o extract_subfs_from_subfs_dir(records[uri].root, path),
                      records, fetchable)
             ELSE ProcessResults(Tail(to_fetch), all_subfs_map, newly_fetched,
                                 records, fetchable)

\* Lines 503-506: only the subfs not fetched yet.
NotYetFetched(newly_fetched, all_subfs_map) ==
    SelectSeq(newly_fetched,
              LAMBDA f : ~(\E k \in DOMAIN all_subfs_map : PathAsUri(k) = f[1]))

\* Lines 429-507: the while loop.
RECURSIVE FetchRounds(_, _, _, _, _)
FetchRounds(to_fetch, all_subfs_map, iteration, records, fetchable) ==
    IF ~(to_fetch # <<>> /\ iteration < MAX_ITERATIONS)
    THEN [all_subfs_map |-> all_subfs_map, iteration |-> iteration, to_fetch |-> to_fetch]
    ELSE LET round == ProcessResults(to_fetch, all_subfs_map, <<>>, records, fetchable)
         IN  FetchRounds(NotYetFetched(round.newly_fetched, round.all_subfs_map),
                         round.all_subfs_map, iteration + 1, records, fetchable)

\* A conversion that keeps the entry as it is, subfs nodes included.
convert_subfs_entry_keep(subfs_entry) == subfs_entry

RECURSIVE convert_subfs_entry_to_fs(_)
convert_subfs_entry_to_fs(subfs_entry) ==
    Entry(subfs_entry.name,
          CASE subfs_entry.node.type = "directory" ->
                    DirectoryNode([i \in 1..Len(subfs_entry.node.entries) |->
                        convert_subfs_entry_to_fs(subfs_entry.node.entries[i])])
            [] subfs_entry.node.type = "subfs" -> DirectoryNode(<<>>)
            [] OTHER -> subfs_entry.node)

\* A mutant of FlatOrDefault: the flat field is ignored.
FlatAlways(flat) == TRUE

\* subfs_node.flat.unwrap_or(true)
FlatOrDefault(flat) == flat # "false"

\* A merge that wraps the entries in a directory whatever the mode.
MergedEntriesWrapped(name, flat, subfs_dir) ==
    <<Entry(name, DirectoryNode([i \in 1..Len(subfs_dir.entries) |->
                                    convert_subfs_entry_to_fs(subfs_dir.entries[i])]))>>

\* The entries that take the place of a subfs entry whose record was fetched.
MergedEntries(name, flat, subfs_dir) ==
    LET converted_entries == [i \in 1..Len(subfs_dir.entries) |->
                                  convert_subfs_entry_to_fs(subfs_dir.entries[i])]
    IN  IF FlatOrDefault(flat)
        THEN converted_entries
        ELSE <<Entry(name, DirectoryNode(converted_entries))>>

RECURSIVE replace_subfs_with_content(_, _, _)
replace_subfs_with_content(directory, subfs_map, current_path) ==
    DirectoryNode(Flatten([i \in 1..Len(directory.entries) |->
        LET entry == directory.entries[i]
            full_path == JoinPath(current_path, entry.name)
        IN  CASE entry.node.type = "subfs" ->
                    IF full_path \in DOMAIN subfs_map
                    THEN MergedEntries(entry.name, entry.node.flat, subfs_map[full_path])
                    ELSE <<>>
              [] entry.node.type = "directory" ->
                    <<Entry(entry.name,
                            replace_subfs_with_content(entry.node, subfs_map, full_path))>>
              [] OTHER -> <<entry>>]))

\* expand_subfs_in_pull.  fetchable: the URIs whose getRecord request goes through.
expand_subfs_in_pull(directory, records, fetchable) ==
    LET to_fetch == extract_subfs_uris(directory.entries, <<>>)
    IN  IF to_fetch = <<>> THEN [ok |-> TRUE, directory |-> directory]
        ELSE LET rounds == FetchRounds(to_fetch, EmptyMap, 0, records, fetchable)
             IN  IF rounds.iteration >= MAX_ITERATIONS
                 THEN [ok |-> FALSE, directory |-> DirectoryNode(<<>>)]
                 ELSE [ok |-> TRUE,
                       directory |-> replace_subfs_with_content(directory,
                                          rounds.all_subfs_map, <<>>)]

\* The File leaves of a tree: (path, content id) pairs under their full paths.
RECURSIVE FileLeaves(_, _)
FileLeaves(directory, current_path) ==
    UNION {LET e == directory.entries[i]
           IN  CASE e.node.type = "file" ->
                        {<<JoinPath(current_path, e.name), e.node.blob.ref>>}
                 [] e.node.type = "directory" ->
                        FileLeaves(e.node, JoinPath(current_path, e.name))
                 [] OTHER -> {}
           : i \in 1..Len(directory.entries)}

\* The subfs URIs a tree refers to, at any depth.
SubfsTargets(directory) ==
    {u[1] : u \in SeqRange(extract_subfs_uris(directory.entries, <<>>))}

\* The (path, content id) pairs of the regular files of a local directory.
RECURSIVE LocalLeaves(_, _)
LocalLeaves(dir, current_path) ==
    UNION {LET e == dir.entries[i]
           IN  IF e.name = ".git" THEN {}
               ELSE IF e.node.type = "file"
               THEN {<<JoinPath(current_path, e.name), compute_cid(CanonicalBytes(e.node.data))>>}
               ELSE LocalLeaves(e.node, JoinPath(current_path, e.name))
           : i \in 1..Len(dir.entries)}


\* ------------------------------------------------------------ pull: download

\* download_blob: the bytes the blob store holds under the reference's CID.
download_blob(blob) == blob.ref[2]

\* A decoder that decodes base64 and leaves the gzip stream as it is.
decompress_blob_no_gunzip(data, is_base64, is_gzipped) ==
    LET base64_ok == ~is_base64 \/ (Len(data) = 2 /\ data[1] = "b64")
    IN  [ok |-> base64_ok,
         data |-> IF is_base64 /\ base64_ok THEN data[2] ELSE data]

\* decompress_blob: base64 first, then gzip; malformed input is an error.
decompress_blob(data, is_base64, is_gzipped) ==
    LET base64_ok == ~is_base64 \/ (Len(data) = 2 /\ data[1] = "b64")
        decoded == IF is_base64 /\ base64_ok THEN data[2] ELSE data
        gzip_ok == ~is_gzipped \/ (base64_ok /\ Len(decoded) = 2 /\ decoded[1] = "gz")
    IN  [ok |-> base64_ok /\ gzip_ok,
         data |-> IF is_gzipped /\ gzip_ok /\ base64_ok THEN decoded[2] ELSE decoded]

\* A directory on the local disk: regular files by path, directories, and the
\* .wisp-metadata.json file.
NoMeta == [type |-> "none"]
SiteMetadata(record_cid, file_cids) ==
    [type |-> "meta", record_cid |-> record_cid, file_cids |-> file_cids]
NoDir == [exists |-> FALSE, files |-> EmptyMap, dirs |-> {}, metadata |-> NoMeta]
EmptyDir == [exists |-> TRUE, files |-> EmptyMap, dirs |-> {}, metadata |-> NoMeta]

\* Path::exists
PathExists(dir, path) == dir.exists /\ (path \in DOMAIN dir.files \/ path \in dir.dirs)

\* A diff that never reuses a local file.
should_copy_never(current_path, new_blob_map, existing_file_cids, existing_output_dir) ==
    FALSE

\* download_directory, lines 288-310.
should_copy(current_path, new_blob_map, existing_file_cids, existing_output_dir) ==
    /\ current_path \in DOMAIN new_blob_map
    /\ current_path \in DOMAIN existing_file_cids
    /\ existing_file_cids[current_path] = new_blob_map[current_path].cid
    /\ PathExists(existing_output_dir, current_path)

\* Writes applied in order: a later write to the same path replaces the earlier one.
RECURSIVE WriteAll(_)
WriteAll(writes) ==
    IF writes = <<>> THEN EmptyMap
    ELSE MapExtend(MapInsert(EmptyMap, Head(writes)[1], Head(writes)[2]),
                   WriteAll(Tail(writes)))

RECURSIVE MergeStaged(_)
MergeStaged(results) ==
    IF results = <<>>
    THEN [ok |-> TRUE, files |-> EmptyMap, dirs |-> {}, downloaded |-> <<>>, copied |-> <<>>]
    ELSE LET first == Head(results)
             rest == MergeStaged(Tail(results))
         IN  [ok |-> first.ok /\ rest.ok,
              files |-> MapExtend(first.files, rest.files),
              dirs |-> first.dirs \cup rest.dirs,
              downloaded |-> first.downloaded \o rest.downloaded,
              copied |-> first.copied \o rest.copied]

\* download_directory without transport or disk failures: what is staged, and
\* which paths were copied and which downloaded.  ok is false when a blob
\* cannot be decoded, a copy source is no regular file, or a directory is to
\* be created where a file was just written.
RECURSIVE download_directory(_, _, _, _, _)
download_directory(dir, new_blob_map, existing_file_cids, existing_output_dir, path_prefix) ==
    LET files == SelectSeq(dir.entries, LAMBDA e : e.node.type = "file")
        subdirs == SelectSeq(dir.entries, LAMBDA e : e.node.type = "directory")
        Copies(e) == should_copy(JoinPath(path_prefix, e.name), new_blob_map,
                                 existing_file_cids, existing_output_dir)
        copy_tasks == SelectSeq(files, Copies)
        download_tasks == SelectSeq(files, LAMBDA e : ~Copies(e))
        copies_ok == \A i \in 1..Len(copy_tasks) :
            JoinPath(path_prefix, copy_tasks[i].name) \in DOMAIN existing_output_dir.files
        Fetched(e) == decompress_blob(download_blob(e.node.blob),
                                      e.node.base64, e.node.encoding = "gzip")
        downloads_ok == \A i \in 1..Len(download_tasks) : Fetched(download_tasks[i]).ok
        copy_writes == [i \in 1..Len(copy_tasks) |->
            <<JoinPath(path_prefix, copy_tasks[i].name),
              IF copies_ok
              THEN existing_output_dir.files[JoinPath(path_prefix, copy_tasks[i].name)]
              ELSE 0>>]
        download_writes == [i \in 1..Len(download_tasks) |->
            <<JoinPath(path_prefix, download_tasks[i].name), Fetched(download_tasks[i]).data>>]
        written == WriteAll(copy_writes \o download_writes)
        dirs_ok == \A i \in 1..Len(subdirs) :
            JoinPath(path_prefix, subdirs[i].name) \notin DOMAIN written
        below == MergeStaged([i \in 1..Len(subdirs) |->
            download_directory(subdirs[i].node, new_blob_map, existing_file_cids,
                               existing_output_dir, JoinPath(path_prefix, subdirs[i].name))])
    IN  [ok |-> copies_ok /\ downloads_ok /\ dirs_ok /\ below.ok,
         files |-> MapExtend(written, below.files),
         dirs |-> {JoinPath(path_prefix, subdirs[i].name) : i \in 1..Len(subdirs)}
                  \cup below.dirs,
         downloaded |-> [i \in 1..Len(download_tasks) |->
                            JoinPath(path_prefix, download_tasks[i].name)]
                        \o below.downloaded,
         copied |-> [i \in 1..Len(copy_tasks) |->
                        JoinPath(path_prefix, copy_tasks[i].name)]
                    \o below.copied]

\* new_file_cids, lines 89-92.
FileCids(blob_map) == [path \in DOMAIN blob_map |-> blob_map[path].cid]

\* Lines 112-129: the files counted on disk against the metadata's count.
has_all_files(output_dir, metadata) ==
    LET actual_file_count == Cardinality({path \in DOMAIN output_dir.files : Len(path) = 1})
        expected_count == Cardinality(DOMAIN metadata.file_cids)
    IN  output_dir.exists /\ actual_file_count > 0 /\ actual_file_count >= expected_count

\* ------------------------------------------------------- remote sites (pull)

NoRecord == [type |-> "none"]
FsRecord(root, file_count) == [type |-> "fs", root |-> root, file_count |-> file_count]
SubfsRecord(root, file_count) == [type |-> "subfs", root |-> root, file_count |-> file_count]

\* at://did/place.wisp.subfs/rkey
SubfsUri(rkey) == [collection |-> "place.wisp.subfs", rkey |-> rkey]

RemoteFile(data) == FileNode(BlobRef(CanonicalBytes(data)))

\* Three subfs records: a leaf, one that refers to the leaf, one that refers to
\* itself.
LeafUri == SubfsUri(1)
NestedUri == SubfsUri(2)
CycleUri == SubfsUri(3)

RemoteSubfsRecords ==
    (LeafUri :> SubfsRecord(DirectoryNode(<<Entry("x", RemoteFile(1))>>), 1))
    @@ (NestedUri :> SubfsRecord(DirectoryNode(<<Entry("x", RemoteFile(1)),
                                                  Entry("y", SubfsNode(LeafUri, "none"))>>), 1))
    @@ (CycleUri :> SubfsRecord(DirectoryNode(<<Entry("x", SubfsNode(CycleUri, "none"))>>), 0))

RemoteNodes ==
    {Absent} \cup {RemoteFile(c) : c \in Contents}
    \cup {DirectoryNode(<<Entry("x", RemoteFile(1))>>),
          SubfsNode(NestedUri, "false"),
          SubfsNode(LeafUri, "true"),
          SubfsNode(CycleUri, "false")}

RemoteRoots ==
    {DirectoryNode(EntriesOf(PullNames, f)) : f \in [SeqRange(PullNames) -> RemoteNodes]}

\* The remote roots one edit away: the entry of one name added, removed or replaced.
OneRemoteEditAway(root) ==
    {t \in RemoteRoots :
        \E n \in SeqRange(EditNames) :
            \A e \in SeqRange(root.entries) \cup SeqRange(t.entries) :
                e.name # n => (e \in SeqRange(root.entries) /\ e \in SeqRange(t.entries))}

\* The subfs URIs reachable from a tree through the records, within depth steps.
RECURSIVE ReachableUris(_, _, _)
ReachableUris(uris, records, depth) ==
    IF depth = 0 THEN uris
    ELSE ReachableUris(
            uris \cup UNION {SubfsTargets(records[u].root) : u \in uris \cap DOMAIN records},
            records, depth - 1)


\* -------------------------------------------------------------------- state

VARIABLES
    localDir,            \* the directory being deployed
    fsRecord,            \* the place.wisp.fs record of the site on the PDS
    subfsRecords,        \* the place.wisp.subfs records on the PDS, by URI
    nextTid,             \* Tid::now_0(): the next fresh record key
    dpc,                 \* where deploy_site is
    deploys,             \* deploy runs started
    existing_blob_map, old_subfs_uris,
    working_directory, total_files, reused_count,
    current_file_count, new_subfs_uris, manifest_size, attempts,
    uploads,             \* paths whose blob this run uploaded, in order
    deleted,             \* subfs URIs this run deleted
    cleanup_next,        \* index into old_subfs_uris of the next deletion
    deployError,         \* why the run returned Err
    unchanged_redeploy,  \* this run redeploys the tree of the committed manifest,
                         \* and fetched the manifest and all its subfs records
    previous_subfs,      \* the subfs URIs of the manifest in the store when the run began
    lastDeployed,        \* the local tree the committed manifest was built from
    recordVersion,       \* stands for the CID of the place.wisp.fs record
    destDir,             \* pull: output_dir on the local disk
    tempDir,             \* pull: the .tmp-<name>-<timestamp> directory beside it
    ppc,                 \* where pull_site is
    pulls,               \* pull runs started
    expanded_root, existing_file_cids, record_cid,
    downloaded, reused,
    downloaded_paths,    \* paths this run downloaded
    copied_paths,        \* paths this run copied from the old snapshot
    pullError,           \* why the run returned Err
    all_fetched,         \* every subfs fetch of this run's expansion succeeded
    prevDest,            \* destDir when this run started
    staged,              \* tempDir when this run began to swap
    to_cwd,              \* output_dir is the current working directory
    xpc,                 \* where expand_subfs_in_pull is
    round_to_fetch,      \* expand_subfs_in_pull: to_fetch
    round_subfs_map,     \* expand_subfs_in_pull: all_subfs_map
    round_iteration,     \* expand_subfs_in_pull: iteration
    xresult,             \* the directory expand_subfs_in_pull returns
    fetched_uris,        \* the URIs fetched successfully in the rounds so far
    failed_paths,        \* the mount paths whose fetch failed
    round_in_flight,     \* the fetch tasks join_all polled at once in the last round
    dest_touched,        \* the user has edited the destination since the last pull
    calls,               \* the calls of pure functions made so far, with their results
    tmode,               \* the traversal observed: build_directory or download_directory
    ttree,               \* the tree it walks
    tframes,             \* the dir_tasks left in each active call, outermost first
    tqueue,              \* the file tasks of the current directory not yet started
    tflight,             \* the file tasks in flight
    tdone,               \* the file tasks completed
    tfailed,             \* a file task of the current directory has failed
    tpc,                 \* where the traversal is
    last_cid,            \* serve: the CID of the last commit handled, 0 for None
    redirect_rules,      \* serve: the rules loaded from _redirects
    settings,            \* serve: the settings record in use
    response,            \* the last request answered, with its response
    handled              \* the last firehose message handled, with the state before it

storeVars == <<fsRecord, subfsRecords, nextTid>>
runVars == <<existing_blob_map, old_subfs_uris, working_directory, total_files,
             reused_count, current_file_count, new_subfs_uris, manifest_size,
             attempts, uploads, deleted, cleanup_next, deployError, unchanged_redeploy,
             previous_subfs>>
deployVars == <<localDir, dpc, deploys, runVars, lastDeployed>>
pullRunVars == <<expanded_root, existing_file_cids, record_cid, downloaded, reused,
                 downloaded_paths, copied_paths, pullError, all_fetched, prevDest, staged,
                 to_cwd>>
pullVars == <<recordVersion, destDir, tempDir, ppc, pulls, dest_touched, pullRunVars>>
expandVars == <<xpc, round_to_fetch, round_subfs_map, round_iteration, xresult,
                fetched_uris, failed_paths, round_in_flight>>
transferVars == <<tmode, ttree, tframes, tqueue, tflight, tdone, tfailed, tpc>>
serveVars == <<last_cid, redirect_rules, settings, response, handled>>
vars == <<storeVars, deployVars, pullVars, expandVars, calls, transferVars, serveVars>>

\* ------------------------------------------------------------------- deploy

\* fs::Directory -> subfs::Directory: the same tree; subfs::Subfs has no flat field.
RECURSIVE convert_fs_dir_to_subfs_dir(_)
convert_fs_dir_to_subfs_dir(fs_dir) ==
    DirectoryNode([i \in 1..Len(fs_dir.entries) |->
        LET entry == fs_dir.entries[i]
        IN  Entry(entry.name,
                  CASE entry.node.type = "directory" -> convert_fs_dir_to_subfs_dir(entry.node)
                    [] entry.node.type = "subfs" -> SubfsNode(entry.node.subject, "none")
                    [] OTHER -> entry.node)])

\* merge_subfs_blob_maps: the records that could be fetched are flattened under
\* their mount paths and inserted into the main map.
RECURSIVE merge_subfs_blob_maps(_, _, _, _)
merge_subfs_blob_maps(subfs_uris, main_blob_map, records, fetched) ==
    IF subfs_uris = <<>> THEN main_blob_map
    ELSE LET uri == Head(subfs_uris)[1]
             mount_path == Head(subfs_uris)[2]
             merged == IF uri \in fetched
                       THEN MapExtend(main_blob_map,
                                extract_subfs_blobs(records[uri].root.entries, mount_path))
                       ELSE main_blob_map
         IN  merge_subfs_blob_maps(Tail(subfs_uris), merged, records, fetched)

InitRun ==
    /\ existing_blob_map = EmptyMap
    /\ old_subfs_uris = <<>>
    /\ working_directory = DirectoryNode(<<>>)
    /\ total_files = 0
    /\ reused_count = 0
    /\ current_file_count = 0
    /\ new_subfs_uris = <<>>
    /\ manifest_size = 0
    /\ attempts = 0
    /\ uploads = <<>>
    /\ deleted = {}
    /\ cleanup_next = 1
    /\ deployError = "none"
    /\ unchanged_redeploy = FALSE
    /\ previous_subfs = {}

InitPullRun ==
    /\ expanded_root = DirectoryNode(<<>>)
    /\ existing_file_cids = EmptyMap
    /\ record_cid = 0
    /\ downloaded = 0
    /\ reused = 0
    /\ downloaded_paths = <<>>
    /\ copied_paths = <<>>
    /\ pullError = "none"
    /\ all_fetched = FALSE
    /\ prevDest = NoDir
    /\ staged = NoDir
    /\ to_cwd = FALSE

InitExpand ==
    /\ xpc = "idle"
    /\ round_to_fetch = <<>>
    /\ round_subfs_map = EmptyMap
    /\ round_iteration = 0
    /\ xresult = DirectoryNode(<<>>)
    /\ fetched_uris = {}
    /\ failed_paths = {}
    /\ round_in_flight = 0

\* No pure function has been called and no traversal is observed.
InitOther ==
    /\ calls = <<>>
    /\ tmode = "none"
    /\ ttree = DirectoryNode(<<>>)
    /\ tframes = <<>>
    /\ tqueue = <<>>
    /\ tflight = {}
    /\ tdone = {}
    /\ tfailed = FALSE
    /\ tpc = "idle"

\* The settings record: spa_mode and custom404 name a file or are unset.
NoSettings == [present |-> FALSE, spa_mode |-> <<>>, directory_listing |-> FALSE,
               custom404 |-> <<>>]
NoMessage == [seq |-> 0]
NoResponse == [kind |-> "none"]

\* The other specifications do not serve.
InitServe ==
    /\ last_cid = 0
    /\ redirect_rules = <<>>
    /\ settings = NoSettings
    /\ response = NoResponse
    /\ handled = NoMessage

InitDisk ==
    /\ dest_touched = FALSE
    /\ recordVersion = 1
    /\ destDir = NoDir
    /\ tempDir = NoDir
    /\ ppc = "idle"
    /\ pulls = 0
    /\ InitPullRun

Init ==
    /\ localDir \in LocalTrees
    /\ fsRecord = NoRecord
    /\ subfsRecords = EmptyMap
    /\ nextTid = 1
    /\ dpc = "idle"
    /\ deploys = 0
    /\ lastDeployed = Absent
    /\ InitRun
    /\ InitDisk
    /\ InitExpand
    /\ InitOther
    /\ InitServe

\* deploy_site, lines 207-266: no manifest can be read; everything is uploaded.
FetchNone ==
    /\ dpc = "idle"
    /\ deploys < MaxDeploys
    /\ deploys' = deploys + 1
    /\ dpc' = "build"
    /\ previous_subfs' = IF fsRecord = NoRecord THEN {} ELSE SubfsTargets(fsRecord.root)
    /\ UNCHANGED <<serveVars, calls, transferVars, expandVars, pullVars, localDir, storeVars, existing_blob_map, old_subfs_uris,
                   working_directory, total_files, reused_count, current_file_count,
                   new_subfs_uris, manifest_size, attempts, uploads, deleted,
                   cleanup_next, deployError, unchanged_redeploy, lastDeployed>>

\* deploy_site, lines 207-266: the manifest is read; the subfs records in fetched
\* are read too, the others fail.
FetchExisting ==
    /\ dpc = "idle"
    /\ deploys < MaxDeploys
    /\ fsRecord # NoRecord
    /\ LET subfs_uris == extract_subfs_uris(fsRecord.root.entries, <<>>)
           present == {u[1] : u \in SeqRange(subfs_uris)} \cap DOMAIN subfsRecords
       IN  \E fetched \in SUBSET present :
            /\ existing_blob_map' =
                    merge_subfs_blob_maps(subfs_uris, extract_blob_map(fsRecord.root),
                                          subfsRecords, fetched)
            /\ old_subfs_uris' = subfs_uris
            /\ previous_subfs' = SubfsTargets(fsRecord.root)
            /\ unchanged_redeploy' =
                    (lastDeployed = localDir
                     /\ fetched = {u[1] : u \in SeqRange(subfs_uris)})
    /\ deploys' = deploys + 1
    /\ dpc' = "build"
    /\ UNCHANGED <<serveVars, calls, transferVars, expandVars, pullVars, localDir, storeVars, working_directory, total_files, reused_count,
                   current_file_count, new_subfs_uris, manifest_size, attempts, uploads,
                   deleted, cleanup_next, deployError, lastDeployed>>

\* deploy_site, line 284.
NeedsSplit(files, size) ==
    files >= FILE_COUNT_THRESHOLD \/ size > MAX_MANIFEST_SIZE

\* deploy_site, lines 268-284.
BuildOk ==
    /\ dpc = "build"
    /\ LET built == build_directory(localDir, existing_blob_map, <<>>, NoPath)
           size == estimate_directory_size(built.directory)
       IN  /\ working_directory' = built.directory
           /\ total_files' = built.total_files
           /\ reused_count' = built.reused_count
           /\ current_file_count' = built.total_files
           /\ uploads' = built.uploads
           /\ manifest_size' = size
           /\ dpc' = IF NeedsSplit(built.total_files, size) THEN "split" ELSE "commit"
    /\ UNCHANGED <<serveVars, calls, transferVars, expandVars, pullVars, localDir, storeVars, deploys, existing_blob_map, old_subfs_uris,
                   new_subfs_uris, attempts, deleted, cleanup_next, deployError,
                   unchanged_redeploy, previous_subfs, lastDeployed>>

\* deploy_site, line 269: a file cannot be read or uploaded.
\* The build whose error is swallowed: the partial result goes on to the commit.
BuildFailSwallowed ==
    /\ dpc = "build"
    /\ \E failing \in LocalFilePaths(localDir, <<>>) :
        LET built == build_directory(localDir, existing_blob_map, <<>>, failing)
        IN  /\ working_directory' = built.directory
            /\ total_files' = built.total_files
            /\ reused_count' = built.reused_count
            /\ current_file_count' = built.total_files
            /\ uploads' = built.uploads
            /\ manifest_size' = estimate_directory_size(built.directory)
    /\ dpc' = "commit"
    /\ UNCHANGED <<serveVars, calls, transferVars, expandVars, pullVars, localDir, storeVars, deploys, existing_blob_map, old_subfs_uris,
                   new_subfs_uris, attempts, deleted, cleanup_next, deployError,
                   unchanged_redeploy, previous_subfs, lastDeployed>>

BuildFail ==
    /\ dpc = "build"
    /\ \E failing \in LocalFilePaths(localDir, <<>>) :
        LET built == build_directory(localDir, existing_blob_map, <<>>, failing)
        IN  uploads' = built.uploads
    /\ dpc' = "err"
    /\ deployError' = "build"
    /\ UNCHANGED <<serveVars, calls, transferVars, expandVars, pullVars, localDir, storeVars, deploys, existing_blob_map, old_subfs_uris,
                   working_directory, total_files, reused_count, current_file_count,
                   new_subfs_uris, manifest_size, attempts, deleted, cleanup_next,
                   unchanged_redeploy, previous_subfs, lastDeployed>>

\* deploy_site, line 291: the while condition.
SplitWanted(size, count, tries) ==
    (size > MAX_MANIFEST_SIZE \/ count > TARGET_FILE_COUNT) /\ tries < MAX_SPLIT_ATTEMPTS

\* deploy_site, line 337.
FitsLimits(size, count) ==
    size <= MAX_MANIFEST_SIZE /\ count <= TARGET_FILE_COUNT

\* An attempts check that fires one iteration early.
AfterSplitLoopEarly(tries) ==
    IF tries >= MAX_SPLIT_ATTEMPTS - 1 THEN "err" ELSE "commit"

\* deploy_site, lines 347-354: where the run goes when the loop is left.
AfterSplitLoop(tries) ==
    IF tries >= MAX_SPLIT_ATTEMPTS THEN "err" ELSE "commit"

AfterSplitError(tries) ==
    IF tries >= MAX_SPLIT_ATTEMPTS THEN "budget" ELSE "none"

\* A mutant of FileCountAfterSplit: the running count is not reduced.
FileCountNotReduced(count, split_count) == count

\* deploy_site, line 330.
FileCountAfterSplit(count, split_count) == count - split_count

\* A mutant of PutRecord: the record is not in the store when the call returns.
PutRecordDeferred(records, uri, record) == records

\* agent.put_record(..).await?: the record is in the store when the call returns.
PutRecord(records, uri, record) == MapInsert(records, uri, record)

\* deploy_site, lines 291-340: one iteration that creates a subfs record.
SplitPutOk ==
    /\ dpc = "split"
    /\ SplitWanted(manifest_size, current_file_count, attempts)
    /\ LET directories == find_large_directories(working_directory, <<>>)
       IN  /\ directories # <<>>
           /\ LET largest_dir == Head(directories)
                  subfs_uri == SubfsUri(nextTid)
                  replaced == replace_directory_with_subfs(working_directory,
                                    largest_dir.path, subfs_uri, "false")
                  count == FileCountAfterSplit(current_file_count, largest_dir.file_count)
                  size == estimate_directory_size(replaced)
              IN  /\ subfsRecords' = PutRecord(subfsRecords, subfs_uri,
                          SubfsRecord(convert_fs_dir_to_subfs_dir(largest_dir.directory),
                                      largest_dir.file_count))
                  /\ nextTid' = nextTid + 1
                  /\ working_directory' = replaced
                  /\ new_subfs_uris' = Append(new_subfs_uris, <<subfs_uri, largest_dir.path>>)
                  /\ current_file_count' = count
                  /\ manifest_size' = size
                  /\ attempts' = attempts + 1
                  /\ dpc' = IF FitsLimits(size, count)
                            THEN AfterSplitLoop(attempts + 1) ELSE "split"
                  /\ deployError' = IF FitsLimits(size, count)
                                    THEN AfterSplitError(attempts + 1) ELSE "none"
    /\ UNCHANGED <<serveVars, calls, transferVars, expandVars, pullVars, localDir, fsRecord, deploys, existing_blob_map, old_subfs_uris,
                   total_files, reused_count, uploads, deleted, cleanup_next,
                   unchanged_redeploy, previous_subfs, lastDeployed>>

\* deploy_site, lines 313-316: put_record of the subfs record fails.
SplitPutFail ==
    /\ dpc = "split"
    /\ SplitWanted(manifest_size, current_file_count, attempts)
    /\ find_large_directories(working_directory, <<>>) # <<>>
    /\ attempts' = attempts + 1
    /\ dpc' = "err"
    /\ deployError' = "put_subfs"
    /\ UNCHANGED <<serveVars, calls, transferVars, expandVars, pullVars, localDir, storeVars, deploys, existing_blob_map, old_subfs_uris,
                   working_directory, total_files, reused_count, current_file_count,
                   new_subfs_uris, manifest_size, uploads, deleted, cleanup_next,
                   unchanged_redeploy, previous_subfs, lastDeployed>>

\* deploy_site, lines 341-344: no directory is left to split.
SplitNoDirectories ==
    /\ dpc = "split"
    /\ SplitWanted(manifest_size, current_file_count, attempts)
    /\ find_large_directories(working_directory, <<>>) = <<>>
    /\ attempts' = attempts + 1
    /\ dpc' = AfterSplitLoop(attempts + 1)
    /\ deployError' = AfterSplitError(attempts + 1)
    /\ UNCHANGED <<serveVars, calls, transferVars, expandVars, pullVars, localDir, storeVars, deploys, existing_blob_map, old_subfs_uris,
                   working_directory, total_files, reused_count, current_file_count,
                   new_subfs_uris, manifest_size, uploads, deleted, cleanup_next,
                   unchanged_redeploy, previous_subfs, lastDeployed>>

\* deploy_site, line 291: the while condition is false.
SplitLoopExit ==
    /\ dpc = "split"
    /\ ~SplitWanted(manifest_size, current_file_count, attempts)
    /\ dpc' = AfterSplitLoop(attempts)
    /\ deployError' = AfterSplitError(attempts)
    /\ UNCHANGED <<serveVars, calls, transferVars, expandVars, pullVars, localDir, storeVars, deploys, existing_blob_map, old_subfs_uris,
                   working_directory, total_files, reused_count, current_file_count,
                   new_subfs_uris, manifest_size, attempts, uploads, deleted,
                   cleanup_next, unchanged_redeploy, previous_subfs, lastDeployed>>

\* deploy_site, lines 363-373: the root manifest is written.
CommitRootOk ==
    /\ dpc = "commit"
    /\ fsRecord' = FsRecord(working_directory, current_file_count)
    /\ lastDeployed' = localDir
    /\ dpc' = IF old_subfs_uris # <<>> THEN "cleanup" ELSE "ok"
    /\ UNCHANGED <<serveVars, calls, transferVars, expandVars, pullVars, localDir, subfsRecords, nextTid, deploys, runVars>>

\* deploy_site, line 373: put_record of the root manifest fails.
CommitRootFail ==
    /\ dpc = "commit"
    /\ dpc' = "err"
    /\ deployError' = "put_root"
    /\ UNCHANGED <<serveVars, calls, transferVars, expandVars, pullVars, localDir, storeVars, deploys, existing_blob_map, old_subfs_uris,
                   working_directory, total_files, reused_count, current_file_count,
                   new_subfs_uris, manifest_size, attempts, uploads, deleted,
                   cleanup_next, unchanged_redeploy, previous_subfs, lastDeployed>>

\* The records left when the record at uri is deleted.
DeleteRecord(records, uri) ==
    [u \in (DOMAIN records) \ {uri} |-> records[u]]

\* A cleanup loop that ends at its first deletion.
AfterCleanupStop(next, old) == "ok"

\* deploy_site, line 387 and the end of the for loop at 393.
AfterCleanup(next, old) ==
    IF next > Len(old) THEN "ok" ELSE "cleanup"

\* deploy_site, lines 393-398: one old subfs record is deleted.
CleanupDeleteOk ==
    /\ dpc = "cleanup"
    /\ cleanup_next <= Len(old_subfs_uris)
    /\ LET uri == old_subfs_uris[cleanup_next][1]
       IN  /\ subfsRecords' = DeleteRecord(subfsRecords, uri)
           /\ deleted' = deleted \cup {uri}
    /\ cleanup_next' = cleanup_next + 1
    /\ dpc' = AfterCleanup(cleanup_next + 1, old_subfs_uris)
    /\ UNCHANGED <<serveVars, calls, transferVars, expandVars, pullVars, localDir, fsRecord, nextTid, deploys, existing_blob_map, old_subfs_uris,
                   working_directory, total_files, reused_count, current_file_count,
                   new_subfs_uris, manifest_size, attempts, uploads, deployError,
                   unchanged_redeploy, previous_subfs, lastDeployed>>

\* deploy_site, lines 399-402: the deletion fails; the loop goes on.
CleanupDeleteFail ==
    /\ dpc = "cleanup"
    /\ cleanup_next <= Len(old_subfs_uris)
    /\ cleanup_next' = cleanup_next + 1
    /\ dpc' = AfterCleanup(cleanup_next + 1, old_subfs_uris)
    /\ UNCHANGED <<serveVars, calls, transferVars, expandVars, pullVars, localDir, storeVars, deploys, existing_blob_map, old_subfs_uris,
                   working_directory, total_files, reused_count, current_file_count,
                   new_subfs_uris, manifest_size, attempts, uploads, deleted, deployError,
                   unchanged_redeploy, previous_subfs, lastDeployed>>

\* The local trees one edit away: one top-level entry added, removed or replaced.
OneEditAway(dir) ==
    {t \in LocalTrees :
        \E n \in SeqRange(EditNames) :
            \A e \in SeqRange(dir.entries) \cup SeqRange(t.entries) :
                e.name # n => (e \in SeqRange(dir.entries) /\ e \in SeqRange(t.entries))}

\* deploy_site has returned; the user may edit the site before the next run.
NextRun ==
    /\ dpc \in {"ok", "err"}
    /\ deploys < MaxDeploys
    /\ dpc' = "idle"
    /\ localDir' \in OneEditAway(localDir)
    /\ existing_blob_map' = EmptyMap
    /\ old_subfs_uris' = <<>>
    /\ working_directory' = DirectoryNode(<<>>)
    /\ total_files' = 0
    /\ reused_count' = 0
    /\ current_file_count' = 0
    /\ new_subfs_uris' = <<>>
    /\ manifest_size' = 0
    /\ attempts' = 0
    /\ uploads' = <<>>
    /\ deleted' = {}
    /\ cleanup_next' = 1
    /\ deployError' = "none"
    /\ unchanged_redeploy' = FALSE
    /\ previous_subfs' = {}
    /\ UNCHANGED <<serveVars, calls, transferVars, expandVars, pullVars, storeVars, deploys, lastDeployed>>

Next ==
    \/ FetchNone
    \/ FetchExisting
    \/ BuildOk
    \/ BuildFail
    \/ SplitPutOk
    \/ SplitPutFail
    \/ SplitNoDirectories
    \/ SplitLoopExit
    \/ CommitRootOk
    \/ CommitRootFail
    \/ CleanupDeleteOk
    \/ CleanupDeleteFail
    \/ NextRun

Spec == Init /\ [][Next]_vars


\* --------------------------------------------------------------------- pull

\* The subfs URIs the expansion of the remote root can ask for.
RelevantUris == ReachableUris(SubfsTargets(fsRecord.root), subfsRecords, 2)

\* Lines 108-129: the recorded revision is the remote one and the files are there.
UpToDate ==
    /\ destDir.exists
    /\ destDir.metadata.type = "meta"
    /\ destDir.metadata.record_cid = recordVersion
    /\ has_all_files(destDir, destDir.metadata)

\* SiteMetadata::load(&output_dir), lines 81-85.
LoadedFileCids ==
    IF destDir.exists /\ destDir.metadata.type = "meta"
    THEN destDir.metadata.file_cids
    ELSE EmptyMap

PullInit ==
    /\ \E root \in RemoteRoots : fsRecord = FsRecord(root, count_files_in_directory(root))
    /\ subfsRecords = RemoteSubfsRecords
    /\ nextTid = 4
    /\ localDir = LocalDir(<<>>)
    /\ dpc = "idle"
    /\ deploys = 0
    /\ lastDeployed = Absent
    /\ InitRun
    /\ InitDisk
    /\ InitExpand
    /\ InitOther
    /\ InitServe

\* The request for the place.wisp.fs record fails (lines 58-67).
PullFetchFail ==
    /\ ppc = "idle"
    /\ pulls < MaxPulls
    /\ pulls' = pulls + 1
    /\ prevDest' = destDir
    /\ ppc' = "err"
    /\ pullError' = "fetch"
    /\ UNCHANGED <<serveVars, calls, transferVars, expandVars, storeVars, deployVars, dest_touched, recordVersion, destDir, tempDir, expanded_root,
                   existing_file_cids, record_cid, downloaded, reused, downloaded_paths,
                   copied_paths, all_fetched, staged, to_cwd>>

\* expand_subfs_in_pull returns Err (line 72).
PullExpandFail ==
    /\ ppc = "idle"
    /\ pulls < MaxPulls
    /\ \E fetchable \in SUBSET RelevantUris :
        ~expand_subfs_in_pull(fsRecord.root, subfsRecords, fetchable).ok
    /\ pulls' = pulls + 1
    /\ prevDest' = destDir
    /\ ppc' = "err"
    /\ pullError' = "expand"
    /\ UNCHANGED <<serveVars, calls, transferVars, expandVars, storeVars, deployVars, dest_touched, recordVersion, destDir, tempDir, expanded_root,
                   existing_file_cids, record_cid, downloaded, reused, downloaded_paths,
                   copied_paths, all_fetched, staged, to_cwd>>

\* Lines 94-138: leftover temp directories are swept, and the pull returns
\* early when the destination holds the remote revision.
PullUpToDate ==
    /\ ppc = "idle"
    /\ pulls < MaxPulls
    /\ \E fetchable \in SUBSET RelevantUris :
        /\ expand_subfs_in_pull(fsRecord.root, subfsRecords, fetchable).ok
        /\ expanded_root' = expand_subfs_in_pull(fsRecord.root, subfsRecords, fetchable).directory
        /\ all_fetched' = (fetchable = RelevantUris)
    /\ UpToDate
    /\ pulls' = pulls + 1
    /\ prevDest' = destDir
    /\ existing_file_cids' = LoadedFileCids
    /\ record_cid' = recordVersion
    /\ tempDir' = NoDir
    /\ ppc' = "uptodate"
    /\ UNCHANGED <<serveVars, calls, transferVars, expandVars, storeVars, deployVars, dest_touched, recordVersion, destDir, downloaded, reused,
                   downloaded_paths, copied_paths, pullError, staged, to_cwd>>

\* Lines 17-149 up to the creation of the temp directory, which fails.
PullCreateTempFail ==
    /\ ppc = "idle"
    /\ pulls < MaxPulls
    /\ \E fetchable \in SUBSET RelevantUris :
        /\ expand_subfs_in_pull(fsRecord.root, subfsRecords, fetchable).ok
        /\ expanded_root' = expand_subfs_in_pull(fsRecord.root, subfsRecords, fetchable).directory
        /\ all_fetched' = (fetchable = RelevantUris)
    /\ ~UpToDate
    /\ pulls' = pulls + 1
    /\ prevDest' = destDir
    /\ existing_file_cids' = LoadedFileCids
    /\ record_cid' = recordVersion
    /\ tempDir' = NoDir
    /\ ppc' = "err"
    /\ pullError' = "create_temp"
    /\ UNCHANGED <<serveVars, calls, transferVars, expandVars, storeVars, deployVars, dest_touched, recordVersion, destDir, downloaded, reused,
                   downloaded_paths, copied_paths, staged, to_cwd>>

\* A pull that clears the destination before it stages anything.
PullStageInPlace ==
    /\ ppc = "idle"
    /\ pulls < MaxPulls
    /\ \E fetchable \in SUBSET RelevantUris :
        /\ expand_subfs_in_pull(fsRecord.root, subfsRecords, fetchable).ok
        /\ expanded_root' = expand_subfs_in_pull(fsRecord.root, subfsRecords, fetchable).directory
        /\ all_fetched' = (fetchable = RelevantUris)
    /\ ~UpToDate
    /\ pulls' = pulls + 1
    /\ prevDest' = destDir
    /\ existing_file_cids' = LoadedFileCids
    /\ record_cid' = recordVersion
    /\ destDir' = EmptyDir
    /\ tempDir' = EmptyDir
    /\ ppc' = "download"
    /\ UNCHANGED <<serveVars, calls, transferVars, expandVars, storeVars, deployVars, dest_touched, recordVersion, downloaded, reused,
                   downloaded_paths, copied_paths, pullError, staged, to_cwd>>

\* Lines 17-149: the record is fetched and expanded, the old metadata loaded,
\* leftovers swept and the temp directory created.
PullStage ==
    /\ ppc = "idle"
    /\ pulls < MaxPulls
    /\ \E fetchable \in SUBSET RelevantUris :
        /\ expand_subfs_in_pull(fsRecord.root, subfsRecords, fetchable).ok
        /\ expanded_root' = expand_subfs_in_pull(fsRecord.root, subfsRecords, fetchable).directory
        /\ all_fetched' = (fetchable = RelevantUris)
    /\ ~UpToDate
    /\ pulls' = pulls + 1
    /\ prevDest' = destDir
    /\ existing_file_cids' = LoadedFileCids
    /\ record_cid' = recordVersion
    /\ tempDir' = EmptyDir
    /\ ppc' = "download"
    /\ UNCHANGED <<serveVars, calls, transferVars, expandVars, storeVars, deployVars, dest_touched, recordVersion, destDir, downloaded, reused,
                   downloaded_paths, copied_paths, pullError, staged, to_cwd>>

\* What download_directory stages for this run (lines 155-168).
StagedDownload ==
    download_directory(expanded_root, extract_blob_map(expanded_root),
                       existing_file_cids, destDir, <<>>)

\* download_directory returns Ok (lines 155-179).
DownloadOk ==
    /\ ppc = "download"
    /\ StagedDownload.ok
    /\ tempDir' = [EmptyDir EXCEPT !.files = StagedDownload.files,
                                   !.dirs = StagedDownload.dirs]
    /\ downloaded' = Len(StagedDownload.downloaded)
    /\ reused' = Len(StagedDownload.copied)
    /\ downloaded_paths' = StagedDownload.downloaded
    /\ copied_paths' = StagedDownload.copied
    /\ ppc' = "metadata"
    /\ UNCHANGED <<serveVars, calls, transferVars, expandVars, storeVars, deployVars, dest_touched, recordVersion, destDir, pulls, expanded_root,
                   existing_file_cids, record_cid, pullError, all_fetched, prevDest, staged, to_cwd>>

\* download_directory returns Err: a request, a decode, a copy or a write
\* failed; the temp directory is removed (lines 171-174).
DownloadFail ==
    /\ ppc = "download"
    /\ ~StagedDownload.ok \/ expanded_root.entries # <<>>
    /\ tempDir' = NoDir
    /\ ppc' = "err"
    /\ pullError' = "download"
    /\ UNCHANGED <<serveVars, calls, transferVars, expandVars, storeVars, deployVars, dest_touched, recordVersion, destDir, pulls, expanded_root,
                   existing_file_cids, record_cid, downloaded, reused, downloaded_paths,
                   copied_paths, all_fetched, prevDest, staged, to_cwd>>

\* metadata.save(&temp_dir) succeeds (lines 182-183), and output_dir is compared
\* with the current directory (lines 186-190).
SaveMetadataOk ==
    /\ ppc = "metadata"
    /\ tempDir' = [tempDir EXCEPT !.metadata =
            SiteMetadata(record_cid, FileCids(extract_blob_map(expanded_root)))]
    /\ staged' = tempDir'
    /\ \E cwd \in BOOLEAN :
        /\ cwd => destDir.exists
        /\ to_cwd' = cwd
        /\ ppc' = IF cwd THEN "move" ELSE IF destDir.exists THEN "remove" ELSE "rename"
    /\ UNCHANGED <<serveVars, calls, transferVars, expandVars, storeVars, deployVars, dest_touched, recordVersion, destDir, pulls, expanded_root,
                   existing_file_cids, record_cid, downloaded, reused, downloaded_paths,
                   copied_paths, pullError, all_fetched, prevDest>>

\* metadata.save(&temp_dir)? returns Err (line 183): nothing is cleaned up.
SaveMetadataFail ==
    /\ ppc = "metadata"
    /\ ppc' = "err"
    /\ pullError' = "metadata"
    /\ UNCHANGED <<serveVars, calls, transferVars, expandVars, storeVars, deployVars, dest_touched, recordVersion, destDir, tempDir, pulls,
                   expanded_root, existing_file_cids, record_cid, downloaded, reused,
                   downloaded_paths, copied_paths, all_fetched, prevDest, staged, to_cwd>>

\* remove_dir_all(&output_dir) succeeds (lines 213-215).
RemoveDestOk ==
    /\ ppc = "remove"
    /\ destDir' = NoDir
    /\ ppc' = "rename"
    /\ UNCHANGED <<serveVars, calls, transferVars, expandVars, storeVars, deployVars, dest_touched, recordVersion, tempDir, pulls, pullRunVars>>

\* remove_dir_all(&output_dir)? returns Err (line 214) having removed some of
\* the files.
RemoveDestFail ==
    /\ ppc = "remove"
    /\ \E kept \in SUBSET DOMAIN destDir.files :
        destDir' = [destDir EXCEPT !.files = [path \in kept |-> destDir.files[path]]]
    /\ ppc' = "err"
    /\ pullError' = "remove"
    /\ UNCHANGED <<serveVars, calls, transferVars, expandVars, storeVars, deployVars, dest_touched, recordVersion, tempDir, pulls, expanded_root,
                   existing_file_cids, record_cid, downloaded, reused, downloaded_paths,
                   copied_paths, all_fetched, prevDest, staged, to_cwd>>

\* rename(&temp_dir, &output_dir) succeeds (lines 225-226).
RenameOk ==
    /\ ppc = "rename"
    /\ destDir' = tempDir
    /\ tempDir' = NoDir
    /\ ppc' = "ok"
    /\ UNCHANGED <<serveVars, calls, transferVars, expandVars, storeVars, deployVars, dest_touched, recordVersion, pulls, pullRunVars>>

\* rename fails: the temp directory is removed and Err returned (lines 227-231).
RenameFail ==
    /\ ppc = "rename"
    /\ tempDir' = NoDir
    /\ ppc' = "err"
    /\ pullError' = "rename"
    /\ UNCHANGED <<serveVars, calls, transferVars, expandVars, storeVars, deployVars, dest_touched, recordVersion, destDir, pulls, expanded_root,
                   existing_file_cids, record_cid, downloaded, reused, downloaded_paths,
                   copied_paths, all_fetched, prevDest, staged, to_cwd>>

\* The names read_dir(&temp_dir) yields: the top-level files and directories
\* and the metadata file.
MetadataName == ".wisp-metadata.json"

TempEntries(temp) ==
    {path[1] : path \in DOMAIN temp.files} \cup {path[1] : path \in temp.dirs}
    \cup (IF temp.metadata.type = "meta" THEN {MetadataName} ELSE {})

\* Lines 192-207 for the entries in moved: what the current directory holds
\* under the entry's name is removed and the entry renamed into its place.
\* Entries of the current directory under other names are not looked at.
MoveEntries(temp, dest, moved) ==
    LET kept == {path \in DOMAIN dest.files : path[1] \notin moved}
        taken == {path \in DOMAIN temp.files : path[1] \in moved}
        left == {path \in DOMAIN temp.files : path[1] \notin moved}
    IN  [dest |-> [exists |-> TRUE,
                   files |-> [path \in kept \cup taken |->
                                IF path \in taken THEN temp.files[path] ELSE dest.files[path]],
                   dirs |-> {path \in dest.dirs : path[1] \notin moved}
                            \cup {path \in temp.dirs : path[1] \in moved},
                   metadata |-> IF MetadataName \in moved THEN temp.metadata
                                ELSE dest.metadata],
         temp |-> [exists |-> TRUE,
                   files |-> [path \in left |-> temp.files[path]],
                   dirs |-> {path \in temp.dirs : path[1] \notin moved},
                   metadata |-> IF MetadataName \in moved THEN NoMeta ELSE temp.metadata]]

\* Lines 192-210: every entry of the temp directory is moved into the current
\* directory and the temp directory removed.
MoveEntriesOk ==
    /\ ppc = "move"
    /\ destDir' = MoveEntries(tempDir, destDir, TempEntries(tempDir)).dest
    /\ tempDir' = NoDir
    /\ ppc' = "ok"
    /\ UNCHANGED <<serveVars, calls, transferVars, expandVars, storeVars, deployVars, dest_touched, recordVersion, pulls, pullRunVars>>

\* Lines 192-210: read_dir, a removal, a rename or the removal of the temp
\* directory fails with `?` after the entries in moved went through, in the
\* order read_dir gave them.
MoveEntriesFail ==
    /\ ppc = "move"
    /\ \E moved \in SUBSET TempEntries(tempDir) :
        /\ destDir' = MoveEntries(tempDir, destDir, moved).dest
        /\ tempDir' = MoveEntries(tempDir, destDir, moved).temp
    /\ ppc' = "err"
    /\ pullError' = "move"
    /\ UNCHANGED <<serveVars, calls, transferVars, expandVars, storeVars, deployVars, dest_touched, recordVersion, pulls, expanded_root,
                   existing_file_cids, record_cid, downloaded, reused, downloaded_paths,
                   copied_paths, all_fetched, prevDest, staged, to_cwd>>

\* pull_site is invoked again; in between the site may have been redeployed
\* with one entry of its root edited.
NextPull ==
    /\ ppc \in {"ok", "uptodate", "err"}
    /\ pulls < MaxPulls
    /\ \E root \in OneRemoteEditAway(fsRecord.root) :
        /\ fsRecord' = FsRecord(root, count_files_in_directory(root))
        /\ recordVersion' = IF root = fsRecord.root THEN recordVersion ELSE recordVersion + 1
    /\ ppc' = "idle"
    /\ expanded_root' = DirectoryNode(<<>>)
    /\ existing_file_cids' = EmptyMap
    /\ record_cid' = 0
    /\ downloaded' = 0
    /\ reused' = 0
    /\ downloaded_paths' = <<>>
    /\ copied_paths' = <<>>
    /\ pullError' = "none"
    /\ all_fetched' = FALSE
    /\ prevDest' = NoDir
    /\ staged' = NoDir
    /\ to_cwd' = FALSE
    /\ dest_touched' = FALSE
    /\ UNCHANGED <<serveVars, calls, transferVars, expandVars, subfsRecords, nextTid, deployVars, destDir, tempDir, pulls, to_cwd>>

\* Between two runs the user may delete one file of the destination, create a
\* file that is not part of the site at its top level, or both.
StrayFile == <<"w">>

EditDest ==
    /\ ppc = "idle"
    /\ destDir.exists
    /\ ~dest_touched
    /\ \E removed \in SUBSET DOMAIN destDir.files, stray \in BOOLEAN :
        /\ Cardinality(removed) <= 1
        /\ removed # {} \/ stray
        /\ LET kept == [path \in (DOMAIN destDir.files) \ removed |-> destDir.files[path]]
           IN  destDir' = [destDir EXCEPT !.files =
                              IF stray THEN MapInsert(kept, StrayFile, 1) ELSE kept]
    /\ dest_touched' = TRUE
    /\ UNCHANGED <<serveVars, calls, transferVars, expandVars, storeVars, deployVars, recordVersion, tempDir, ppc, pulls, pullRunVars>>

PullNext ==
    \/ PullFetchFail
    \/ PullExpandFail
    \/ PullUpToDate
    \/ PullCreateTempFail
    \/ PullStage
    \/ DownloadOk
    \/ DownloadFail
    \/ SaveMetadataOk
    \/ SaveMetadataFail
    \/ RemoveDestOk
    \/ RemoveDestFail
    \/ RenameOk
    \/ RenameFail
    \/ MoveEntriesOk
    \/ MoveEntriesFail
    \/ NextPull
    \/ EditDest

PullSpec == PullInit /\ [][PullNext]_vars


\* ------------------------------------------- pull: expansion, round by round

\* A chain of subfs records, each holding one reference to the next; the last
\* holds a file.
ChainUri(i) == SubfsUri(10 + i)

ChainRecords ==
    [u \in {ChainUri(i) : i \in 1..MaxChain} |->
        LET i == u.rkey - 10
        IN  IF i < MaxChain
            THEN SubfsRecord(DirectoryNode(<<Entry("y", SubfsNode(ChainUri(i + 1), "none"))>>), 0)
            ELSE SubfsRecord(DirectoryNode(<<Entry("x", RemoteFile(1))>>), 1)]

\* References into the chain that leave MAX_ITERATIONS + 1, MAX_ITERATIONS and
\* MAX_ITERATIONS - 1 records to fetch.
ChainNodes ==
    {SubfsNode(ChainUri(MaxChain - MAX_ITERATIONS + d), "false") : d \in 0..2}

\* Directories of the root that hold a subfs node, as replace_directory_with_subfs
\* leaves them, with a file before or after it.
DeepNodes ==
    {DirectoryNode(<<Entry("x", RemoteFile(2)), Entry("y", SubfsNode(LeafUri, "false"))>>),
     DirectoryNode(<<Entry("y", SubfsNode(LeafUri, "true")), Entry("z", RemoteFile(2))>>),
     DirectoryNode(<<Entry("x", SubfsNode(LeafUri, "false")),
                     Entry("y", SubfsNode(NestedUri, "false"))>>)}

ExpandRoots ==
    {DirectoryNode(EntriesOf(PullNames, f)) :
        f \in [SeqRange(PullNames) -> RemoteNodes \cup ChainNodes \cup DeepNodes]}

ExpandInit ==
    /\ \E root \in ExpandRoots : fsRecord = FsRecord(root, count_files_in_directory(root))
    /\ subfsRecords = RemoteSubfsRecords @@ ChainRecords
    /\ nextTid = 4
    /\ localDir = LocalDir(<<>>)
    /\ dpc = "idle"
    /\ deploys = 0
    /\ lastDeployed = Absent
    /\ InitRun
    /\ InitDisk
    /\ InitExpand
    /\ InitOther
    /\ InitServe

\* expand_subfs_in_pull, lines 415-420: the root has no subfs node and is
\* returned as it is.
ExpandNothing ==
    /\ xpc = "idle"
    /\ extract_subfs_uris(fsRecord.root.entries, <<>>) = <<>>
    /\ xresult' = fsRecord.root
    /\ xpc' = "done"
    /\ UNCHANGED <<serveVars, calls, transferVars, storeVars, deployVars, pullVars, round_in_flight, round_to_fetch, round_subfs_map,
                   round_iteration, fetched_uris, failed_paths>>

\* expand_subfs_in_pull, lines 415-427: the subfs nodes of the root are the
\* first to_fetch.
ExpandStart ==
    /\ xpc = "idle"
    /\ extract_subfs_uris(fsRecord.root.entries, <<>>) # <<>>
    /\ round_to_fetch' = extract_subfs_uris(fsRecord.root.entries, <<>>)
    /\ xpc' = "rounds"
    /\ UNCHANGED <<serveVars, calls, transferVars, storeVars, deployVars, pullVars, round_in_flight, round_subfs_map, round_iteration,
                   xresult, fetched_uris, failed_paths>>

\* Lines 429-507: one iteration of the while loop; the requests for the URIs
\* in fetchable go through.
ExpandRound ==
    /\ xpc = "rounds"
    /\ round_to_fetch # <<>> /\ round_iteration < MAX_ITERATIONS
    /\ \E fetchable \in SUBSET {f[1] : f \in SeqRange(round_to_fetch)} :
        LET round == ProcessResults(round_to_fetch, round_subfs_map, <<>>,
                                    subfsRecords, fetchable)
            fetched == {f \in SeqRange(round_to_fetch) :
                            FetchSucceeds(f[1], subfsRecords, fetchable)}
        IN  /\ round_subfs_map' = round.all_subfs_map
            /\ round_to_fetch' = NotYetFetched(round.newly_fetched, round.all_subfs_map)
            /\ fetched_uris' = fetched_uris \cup {f[1] : f \in fetched}
            /\ failed_paths' = failed_paths
                                \cup {f[2] : f \in SeqRange(round_to_fetch) \ fetched}
    /\ round_in_flight' = Len(round_to_fetch)
    /\ round_iteration' = round_iteration + 1
    /\ UNCHANGED <<serveVars, calls, transferVars, storeVars, deployVars, pullVars, xpc, xresult>>

\* Lines 509-511: the loop is left with the iteration count at its maximum.
ExpandMaxIterations ==
    /\ xpc = "rounds"
    /\ ~(round_to_fetch # <<>> /\ round_iteration < MAX_ITERATIONS)
    /\ round_iteration >= MAX_ITERATIONS
    /\ xpc' = "err"
    /\ UNCHANGED <<serveVars, calls, transferVars, storeVars, deployVars, pullVars, round_in_flight, round_to_fetch, round_subfs_map,
                   round_iteration, xresult, fetched_uris, failed_paths>>

\* Lines 513-516: the subfs nodes of the root are replaced by what was fetched.
ExpandReplace ==
    /\ xpc = "rounds"
    /\ ~(round_to_fetch # <<>> /\ round_iteration < MAX_ITERATIONS)
    /\ round_iteration < MAX_ITERATIONS
    /\ xresult' = replace_subfs_with_content(fsRecord.root, round_subfs_map, <<>>)
    /\ xpc' = "done"
    /\ UNCHANGED <<serveVars, calls, transferVars, storeVars, deployVars, pullVars, round_in_flight, round_to_fetch, round_subfs_map,
                   round_iteration, fetched_uris, failed_paths>>

ExpandNext ==
    \/ ExpandNothing
    \/ ExpandStart
    \/ ExpandRound
    \/ ExpandMaxIterations
    \/ ExpandReplace

ExpandSpec == ExpandInit /\ [][ExpandNext]_vars


\* ------------------------------------------------- pure functions, call by call

\* The trees replace_directory_with_subfs is called on: what build_directory
\* makes of the local trees over two names.
CallTrees ==
    {build_directory(LocalDir(EntriesOf(PullNames, f)), EmptyMap, <<>>, NoPath).directory :
        f \in [SeqRange(PullNames) -> {Absent, LocalFile(1)} \cup SubDirs]}

\* The paths of the directories of a tree, at any depth.
DirectoryPaths(directory) ==
    {d.path : d \in SeqRange(find_large_directories(directory, <<>>))}

Call(fn, args, result) == [fn |-> fn, args |-> args, result |-> result]

PureInit ==
    /\ localDir = LocalDir(<<>>)
    /\ fsRecord = NoRecord
    /\ subfsRecords = EmptyMap
    /\ nextTid = 1
    /\ dpc = "idle"
    /\ deploys = 0
    /\ lastDeployed = Absent
    /\ InitRun
    /\ InitDisk
    /\ InitExpand
    /\ InitOther
    /\ InitServe

\* replace_directory_with_subfs(directory, target_path, subfs_uri, flat) is
\* called with the path of a directory of the tree.
ReplaceCall ==
    /\ Len(calls) < MaxCalls
    /\ \E directory \in CallTrees, flat \in {"true", "false"} :
        \E target_path \in DirectoryPaths(directory) :
            calls' = Append(calls,
                Call("replace_directory_with_subfs",
                     <<directory, target_path, LeafUri, flat>>,
                     replace_directory_with_subfs(directory, target_path, LeafUri, flat)))
    /\ UNCHANGED <<serveVars, storeVars, deployVars, pullVars, expandVars, transferVars>>

\* Local directories with hidden names: ".env" and ".git" as a file or as a
\* directory, next to a visible name, at the top and one level down.
HiddenNames == {".env", ".git"}

HiddenSubDirs ==
    {LocalDir(<<Entry(".env", LocalFile(1))>>),
     LocalDir(<<Entry(".git", LocalDir(<<Entry("x", LocalFile(1))>>)), Entry("x", LocalFile(2))>>),
     LocalDir(<<Entry("x", LocalFile(1))>>)}

HiddenTrees ==
    {LocalDir(EntriesOf(<<".env", ".git", "x">>, f)) :
        f \in [{".env", ".git", "x"} -> {Absent, LocalFile(1)} \cup HiddenSubDirs]}

\* build_directory(dir_path, agent, existing_blobs, current_path) on a local
\* directory, with no blob of an earlier deploy.
BuildCall ==
    /\ Len(calls) < MaxCalls
    /\ \E dir \in HiddenTrees :
        calls' = Append(calls,
            Call("build_directory", <<dir>>, build_directory(dir, EmptyMap, <<>>, NoPath)))
    /\ UNCHANGED <<serveVars, storeVars, deployVars, pullVars, expandVars, transferVars>>

\* Byte strings: empty, raw bytes, gzip of a file, base64 of raw bytes, and
\* the blobs of process_file.
ByteStrings ==
    {<<>>}
    \cup {<<"raw", c>> : c \in Contents}
    \cup {GzipEncode(c) : c \in Contents}
    \cup {Base64Encode(<<"raw", c>>) : c \in Contents}
    \cup {CanonicalBytes(c) : c \in Contents}

\* compute_cid(content).
CidCall ==
    /\ Len(calls) < MaxCalls
    /\ \E content \in ByteStrings :
        calls' = Append(calls, Call("compute_cid", <<content>>, compute_cid_outcome(content)))
    /\ UNCHANGED <<serveVars, storeVars, deployVars, pullVars, expandVars, transferVars>>

\* decompress_blob(data, is_base64, is_gzipped).
DecompressCall ==
    /\ Len(calls) < MaxCalls
    /\ \E data \in ByteStrings, is_base64 \in BOOLEAN, is_gzipped \in BOOLEAN :
        calls' = Append(calls,
            Call("decompress_blob", <<data, is_base64, is_gzipped>>,
                 decompress_blob(data, is_base64, is_gzipped)))
    /\ UNCHANGED <<serveVars, storeVars, deployVars, pullVars, expandVars, transferVars>>

PureNext ==
    \/ ReplaceCall
    \/ BuildCall
    \/ CidCall
    \/ DecompressCall

PureSpec == PureInit /\ [][PureNext]_vars


\* ------------------------------------------------- transfers, task by task
\* build_directory and download_directory as the executor runs them: the file
\* tasks of one directory behind buffer_unordered, then its subdirectories one
\* after the other.

\* Directories with more files than either fan-out bound, one and two levels
\* down as well.
ManyFiles == <<Entry("a", LocalFile(1)), Entry("b", LocalFile(1)),
               Entry("c", LocalFile(1)), Entry("d", LocalFile(1))>>

TransferTrees ==
    {LocalDir(ManyFiles),
     LocalDir(<<Entry("a", LocalFile(1)),
                Entry("p", LocalDir(ManyFiles)),
                Entry("b", LocalFile(1)),
                Entry("q", LocalDir(<<Entry("a", LocalFile(1)),
                                      Entry("r", LocalDir(<<Entry("a", LocalFile(1))>>))>>))>>),
     LocalDir(<<Entry("p", LocalDir(<<Entry("a", LocalFile(1)), Entry("b", LocalFile(1)),
                                      Entry("c", LocalFile(1))>>)),
                Entry("q", LocalDir(<<>>))>>)}

\* The tree a run walks: the local directory for a deploy, the fs tree of the
\* record for a pull.
WalkedTree(mode, tree) ==
    IF mode = "deploy" THEN tree
    ELSE build_directory(tree, EmptyMap, <<>>, NoPath).directory

\* The names of the file tasks of a directory, in the order of the stream:
\* file_tasks (main.rs) and download_tasks (pull.rs).
TransferFiles(mode, dir) ==
    IF mode = "deploy"
    THEN [i \in 1..Len(file_tasks(dir)) |-> file_tasks(dir)[i].name]
    ELSE LET files == SelectSeq(dir.entries, LAMBDA e : e.node.type = "file")
         IN  [i \in 1..Len(files) |-> files[i].name]

\* dir_tasks of both functions.
TransferDirs(mode, dir) ==
    IF mode = "deploy" THEN dir_tasks(dir)
    ELSE SelectSeq(dir.entries, LAMBDA e : e.node.type = "directory")

\* buffer_unordered(5) and buffer_unordered(DOWNLOAD_CONCURRENCY).
TransferLimit(mode) ==
    IF mode = "deploy" THEN UPLOAD_CONCURRENCY ELSE DOWNLOAD_CONCURRENCY

\* A buffer that polls every future of the stream at once.
CanStartAlways(in_flight, limit) == TRUE

\* buffer_unordered(n) takes the next future of the stream only while fewer
\* than n are in flight.
CanStart(in_flight, limit) == in_flight < limit

Frame(path, dirs) == [path |-> path, dirs |-> dirs]

CurrentFrame == tframes[Len(tframes)]

\* deploy_site calls build_directory, or pull_site calls download_directory,
\* on the root.
TransferBegin ==
    /\ tpc = "idle"
    /\ \E mode \in {"deploy", "pull"}, tree \in TransferTrees :
        LET walked == WalkedTree(mode, tree)
        IN  /\ tmode' = mode
            /\ ttree' = walked
            /\ tframes' = <<Frame(<<>>, TransferDirs(mode, walked))>>
            /\ tqueue' = TransferFiles(mode, walked)
    /\ tpc' = "files"
    /\ UNCHANGED <<serveVars, tflight, tdone, tfailed>>
    /\ UNCHANGED <<serveVars, calls, storeVars, deployVars, pullVars, expandVars>>

\* The buffer polls the next task of the stream: its upload or download starts.
TransferStart ==
    /\ tpc = "files"
    /\ tqueue # <<>>
    /\ CanStart(Cardinality(tflight), TransferLimit(tmode))
    /\ tflight' = tflight \cup {JoinPath(CurrentFrame.path, Head(tqueue))}
    /\ tqueue' = Tail(tqueue)
    /\ UNCHANGED <<serveVars, tmode, ttree, tframes, tdone, tfailed, tpc>>
    /\ UNCHANGED <<serveVars, calls, storeVars, deployVars, pullVars, expandVars>>

\* One task in flight completes with Ok.
TransferComplete ==
    /\ tpc = "files"
    /\ \E path \in tflight :
        /\ tflight' = tflight \ {path}
        /\ tdone' = tdone \cup {path}
    /\ UNCHANGED <<serveVars, tmode, ttree, tframes, tqueue, tfailed, tpc>>
    /\ UNCHANGED <<serveVars, calls, storeVars, deployVars, pullVars, expandVars>>

\* One task in flight completes with Err; collect goes on to the end of the
\* stream.
TransferFail ==
    /\ tpc = "files"
    /\ \E path \in tflight :
        tflight' = tflight \ {path}
    /\ tfailed' = TRUE
    /\ UNCHANGED <<serveVars, tmode, ttree, tframes, tqueue, tdone, tpc>>
    /\ UNCHANGED <<serveVars, calls, storeVars, deployVars, pullVars, expandVars>>

\* collect().await returns: the first Err is returned with ?, otherwise the
\* for loop over dir_tasks begins.
TransferFilesDone ==
    /\ tpc = "files"
    /\ tqueue = <<>>
    /\ tflight = {}
    /\ tpc' = IF tfailed THEN "err" ELSE "dirs"
    /\ UNCHANGED <<serveVars, tmode, ttree, tframes, tqueue, tflight, tdone, tfailed>>
    /\ UNCHANGED <<serveVars, calls, storeVars, deployVars, pullVars, expandVars>>

\* The for loop takes the next subdirectory and recurses into it.
TransferEnterDir ==
    /\ tpc = "dirs"
    /\ CurrentFrame.dirs # <<>>
    /\ LET subdir == Head(CurrentFrame.dirs)
           here == Frame(CurrentFrame.path, Tail(CurrentFrame.dirs))
           below == Frame(JoinPath(CurrentFrame.path, subdir.name),
                          TransferDirs(tmode, subdir.node))
       IN  /\ tframes' = SubSeq(tframes, 1, Len(tframes) - 1) \o <<here, below>>
           /\ tqueue' = TransferFiles(tmode, subdir.node)
    /\ tpc' = "files"
    /\ UNCHANGED <<serveVars, tmode, ttree, tflight, tdone, tfailed>>
    /\ UNCHANGED <<serveVars, calls, storeVars, deployVars, pullVars, expandVars>>

\* The for loop is over: the call returns to its caller's loop, or to
\* deploy_site or pull_site.
TransferLeaveDir ==
    /\ tpc = "dirs"
    /\ CurrentFrame.dirs = <<>>
    /\ tframes' = SubSeq(tframes, 1, Len(tframes) - 1)
    /\ tpc' = IF Len(tframes) = 1 THEN "ok" ELSE "dirs"
    /\ UNCHANGED <<serveVars, tmode, ttree, tqueue, tflight, tdone, tfailed>>
    /\ UNCHANGED <<serveVars, calls, storeVars, deployVars, pullVars, expandVars>>

TransferNext ==
    \/ TransferBegin
    \/ TransferStart
    \/ TransferComplete
    \/ TransferFail
    \/ TransferFilesDone
    \/ TransferEnterDir
    \/ TransferLeaveDir

TransferSpec == PureInit /\ [][TransferNext]_vars

\* ================================================================== claims

\* The build of this run has finished without error.
BuildDone ==
    \/ dpc \in {"split", "commit", "cleanup", "ok"}
    \/ dpc = "err" /\ deployError # "build"

\* The root manifest of this run is in the store.
RootCommitted == dpc \in {"cleanup", "ok"}

\* How often path p occurs in the upload log.
UploadCount(p) == Cardinality({i \in 1..Len(uploads) : uploads[i] = p})

\* The previous blob map holds path p with content id c.
KnownBlob(p, c) ==
    p \in DOMAIN existing_blob_map /\ existing_blob_map[p].cid = c

\* C1: every subfs record is in the store before a root manifest that refers to
\* it is written: neither the committed manifest nor the working tree about to
\* be committed holds a subfs node whose record does not exist.
C1_ShardBeforeRef ==
    /\ fsRecord # NoRecord => SubfsTargets(fsRecord.root) \subseteq DOMAIN subfsRecords
    /\ SubfsTargets(working_directory) \subseteq DOMAIN subfsRecords

\* C1 witness: a second deploy has committed a manifest with subfs nodes and has
\* deleted the subfs records of the first.
C1_Witness ==
    /\ dpc = "ok" /\ deploys = 2
    /\ deleted # {}
    /\ SubfsTargets(fsRecord.root) # {}

\* C2 (as stated): a redeploy of the unchanged tree, with the previous manifest and
\* all its subfs records fetched, uploads nothing and reuses every file.
C2_IdempotentRedeploy ==
    (unchanged_redeploy /\ BuildDone) =>
        (uploads = <<>> /\ reused_count = total_files)

\* C3: expanding the committed manifest, every subfs fetch succeeding, yields the
\* (path, content id) pairs of the tree that was deployed.
C3_RoundTrip ==
    fsRecord # NoRecord =>
        LET expanded == expand_subfs_in_pull(fsRecord.root, subfsRecords, DOMAIN subfsRecords)
        IN  /\ expanded.ok
            /\ FileLeaves(expanded.directory, <<>>) = LocalLeaves(lastDeployed, <<>>)

\* C3 witness: a manifest split into two subfs records, one of them holding a
\* nested directory, expands to the deployed tree.
C3_Witness ==
    /\ dpc = "ok"
    /\ Cardinality(SubfsTargets(fsRecord.root)) = 2
    /\ \E leaf \in LocalLeaves(lastDeployed, <<>>) : Len(leaf[1]) = 3
    /\ FileLeaves(expand_subfs_in_pull(fsRecord.root, subfsRecords,
                                       DOMAIN subfsRecords).directory, <<>>)
         = LocalLeaves(lastDeployed, <<>>)

\* C6 (as stated): when the split loop was entered, a committed root manifest is
\* within both budgets.
C6_CommittedWithinBudget ==
    (RootCommitted /\ attempts > 0) =>
        /\ estimate_directory_size(fsRecord.root) <= MAX_MANIFEST_SIZE
        /\ count_files_in_directory(fsRecord.root) <= TARGET_FILE_COUNT

\* C7: fileCount of every committed record, and the running count of the working
\* tree after any number of splits, is the number of File leaves reachable
\* through directories of its own root.
C7_FileCount ==
    /\ fsRecord # NoRecord =>
            fsRecord.file_count = count_files_in_directory(fsRecord.root)
    /\ \A u \in DOMAIN subfsRecords :
            subfsRecords[u].file_count = count_files_in_directory(subfsRecords[u].root)
    /\ BuildDone => current_file_count = count_files_in_directory(working_directory)

\* C7 witness: a manifest committed after two splits, whose count is no longer
\* the count of the whole site.
C7_Witness ==
    /\ dpc = "ok"
    /\ Len(new_subfs_uris) = 2
    /\ fsRecord.file_count < total_files

\* C10: for every regular file, with path p and content id c: if the previous
\* blob map holds p with c, the node carries that blob and nothing is uploaded;
\* otherwise the file is uploaded exactly once and the node carries the new blob.
C10_UploadOrReuse ==
    BuildDone =>
        /\ \A leaf \in LocalLeaves(localDir, <<>>) :
                IF KnownBlob(leaf[1], leaf[2])
                THEN UploadCount(leaf[1]) = 0
                ELSE UploadCount(leaf[1]) = 1
        /\ Len(uploads) = Cardinality({leaf \in LocalLeaves(localDir, <<>>) :
                                            ~KnownBlob(leaf[1], leaf[2])})
        /\ reused_count = total_files - Len(uploads)
        /\ attempts = 0 =>
                \A leaf \in LocalLeaves(localDir, <<>>) :
                    /\ leaf \in FileLeaves(working_directory, <<>>)
                    /\ KnownBlob(leaf[1], leaf[2]) =>
                          [ref |-> leaf[2]] = existing_blob_map[leaf[1]].blob

\* C10 witness: files x and y were deployed, only x was changed, and the second
\* deploy reuses y and uploads x alone.
C10_Witness ==
    /\ dpc = "ok" /\ deploys = 2
    /\ {leaf[1] : leaf \in LocalLeaves(localDir, <<>>)} = {<<"x">>, <<"y">>}
    /\ {leaf[1] : leaf \in LocalLeaves(lastDeployed, <<>>)} = {<<"x">>, <<"y">>}
    /\ uploads = << <<"x">> >>
    /\ reused_count = 1

\* The pull is past the expansion of the manifest.
Expanded == ppc \in {"download", "metadata", "remove", "rename", "ok"}

\* C4: when a step of a pull before the swap fails (the fetch or the expansion
\* of the manifest, a download or decode, a copy, a staged write, the metadata
\* write into staging), the pull returns an error, the destination is as it
\* was, and no staging directory of this run remains.  A run that fails before
\* line 94 has neither swept nor created a staging directory.
C4_FailedPullLeavesNoTrace ==
    (ppc = "err" /\ pullError \in {"fetch", "expand", "create_temp", "download", "metadata"}) =>
        /\ destDir = prevDest
        /\ pullError \in {"create_temp", "download", "metadata"} => ~tempDir.exists

\* C5: when a pull to a destination other than the working directory returns,
\* the destination is the complete previous snapshot or the complete new one,
\* also when the final rename fails.
C5_OldOrNewSnapshot ==
    (ppc \in {"ok", "uptodate", "err"} /\ ~to_cwd) =>
        \/ destDir = prevDest
        \/ staged.exists /\ destDir = staged

\* No two File leaves of the tree share a path.
UniqueLeafPaths(directory) ==
    \A l1, l2 \in FileLeaves(directory, <<>>) : l1[1] = l2[1] => l1 = l2

\* C8: after a successful pull every File leaf of the expanded tree is a file
\* of the destination whose content is the one the leaf's own content id names;
\* a file is copied from the old destination only if the previous pull recorded
\* its path with the leaf's content id and the old file holds that content.
C8_LeafContent ==
    (ppc = "ok" /\ UniqueLeafPaths(expanded_root)) =>
        \A leaf \in FileLeaves(expanded_root, <<>>) :
            /\ leaf[1] \in DOMAIN destDir.files
            /\ compute_cid(CanonicalBytes(destDir.files[leaf[1]])) = leaf[2]
            /\ leaf[1] \in SeqRange(copied_paths) =>
                    /\ leaf[1] \in DOMAIN existing_file_cids
                    /\ existing_file_cids[leaf[1]] = leaf[2]
                    /\ leaf[1] \in DOMAIN prevDest.files
                    /\ compute_cid(CanonicalBytes(prevDest.files[leaf[1]])) = leaf[2]

\* The subfs references found inside the records the root refers to, with the
\* mount paths the expansion gives them (lines 484-500).
NestedMounts ==
    UNION {SeqRange(extract_subfs_from_subfs_dir(subfsRecords[m[1]].root, m[2])) :
           m \in {n \in SeqRange(extract_subfs_uris(fsRecord.root.entries, <<>>)) :
                    n[1] \in DOMAIN subfsRecords}}

\* C9: when a shard S1 referenced from the root holds a reference to a shard
\* S2 and both are fetched, the File leaves of S2 are in the expanded tree
\* under S2's mount path.
C9_NestedShardExpanded ==
    (Expanded /\ all_fetched) =>
        \A m \in NestedMounts :
            m[1] \in DOMAIN subfsRecords =>
                FileLeaves(subfsRecords[m[1]].root, m[2]) \subseteq FileLeaves(expanded_root, <<>>)

\* C11 (as stated): the keys of extract_blob_map are exactly the full paths of
\* the File leaves of the tree, each mapped to the blob and content id of its
\* own leaf; a leaf at a/x adds no key x.
C11_BlobMapKeys ==
    (Expanded /\ UniqueLeafPaths(expanded_root)) =>
        LET blob_map == extract_blob_map(expanded_root)
        IN  /\ DOMAIN blob_map = {leaf[1] : leaf \in FileLeaves(expanded_root, <<>>)}
            /\ \A leaf \in FileLeaves(expanded_root, <<>>) :
                    /\ blob_map[leaf[1]].cid = leaf[2]
                    /\ blob_map[leaf[1]].blob = [ref |-> leaf[2]]

\* C12: no subfs record of the previous manifest is deleted before the new root
\* manifest is committed, so a deploy that fails deletes nothing; once the
\* cleanup has begun the deploy cannot fail any more, a deletion that fails
\* does not stop the remaining ones, and the deploy returns success only after
\* every old record has been tried.
C12_CleanupAfterCommit ==
    /\ ~RootCommitted => (deleted = {} /\ previous_subfs \subseteq DOMAIN subfsRecords)
    /\ dpc = "cleanup" => (deployError = "none" /\ cleanup_next <= Len(old_subfs_uris))
    /\ dpc = "ok" => (deployError = "none" /\ cleanup_next = Len(old_subfs_uris) + 1)

\* C12 witness: of two old subfs records the deletion of the first failed, the
\* second was deleted all the same, and the deploy returned success.
C12_Witness ==
    /\ dpc = "ok"
    /\ Len(old_subfs_uris) = 2
    /\ deleted = {old_subfs_uris[2][1]}
    /\ old_subfs_uris[1][1] \in DOMAIN subfsRecords

\* C13 (as stated): after a successful deploy in which every deletion
\* succeeded, every subfs URI the previous manifest referred to and the new one
\* does not is gone from the store, and no URI the new manifest refers to has
\* been deleted.
C13_OldShardsDeleted ==
    (dpc = "ok" /\ deleted = {u[1] : u \in SeqRange(old_subfs_uris)}) =>
        /\ (previous_subfs \ SubfsTargets(fsRecord.root)) \cap DOMAIN subfsRecords = {}
        /\ SubfsTargets(fsRecord.root) \cap deleted = {}

\* C18 (as stated): when the built tree has at most FILE_COUNT_THRESHOLD files
\* and its serialized size is at most MAX_MANIFEST_SIZE, the deploy creates no
\* subfs record and the root manifest it commits is the built tree.
C18_NoSplitWithinTriggers ==
    LET built == build_directory(localDir, existing_blob_map, <<>>, NoPath).directory
    IN  (/\ BuildDone
         /\ total_files <= FILE_COUNT_THRESHOLD
         /\ estimate_directory_size(built) <= MAX_MANIFEST_SIZE) =>
            /\ new_subfs_uris = <<>>
            /\ RootCommitted => fsRecord.root = built

\* The directory node at path in the tree.
RECURSIVE DirectoryAt(_, _)
DirectoryAt(directory, path) ==
    IF path = <<>> THEN directory
    ELSE LET i == CHOOSE k \in 1..Len(directory.entries) :
                      directory.entries[k].name = Head(path)
         IN  DirectoryAt(directory.entries[i].node, Tail(path))

\* The directory nodes below the root of the tree, at any depth.
RECURSIVE DirectoriesBelow(_)
DirectoriesBelow(directory) ==
    UNION {{directory.entries[i].node} \cup DirectoriesBelow(directory.entries[i].node) :
           i \in {k \in 1..Len(directory.entries) :
                    directory.entries[k].node.type = "directory"}}

\* The working tree of this run before its j-th split: the built tree with the
\* directories of the first j - 1 splits replaced.
RECURSIVE WorkingTreeBefore(_)
WorkingTreeBefore(j) ==
    IF j = 1 THEN build_directory(localDir, existing_blob_map, <<>>, NoPath).directory
    ELSE replace_directory_with_subfs(WorkingTreeBefore(j - 1), new_subfs_uris[j - 1][2],
                                      new_subfs_uris[j - 1][1], "false")

\* C20: the directory each split writes as a subfs record is one of maximal
\* serialized size among all directories, at any depth, of the working tree
\* before that split, and the root of the record has exactly the entries of
\* that directory.
C20_LargestDirectorySplit ==
    BuildDone =>
        \A j \in 1..Len(new_subfs_uris) :
            LET before == WorkingTreeBefore(j)
                split == DirectoryAt(before, new_subfs_uris[j][2])
            IN  /\ split.type = "directory"
                /\ \A d \in DirectoriesBelow(before) :
                        estimate_directory_size(d) <= estimate_directory_size(split)
                /\ new_subfs_uris[j][1] \in DOMAIN subfsRecords
                /\ subfsRecords[new_subfs_uris[j][1]].root.entries = split.entries

\* C20 witness: a deploy has split directory y although the smaller directory
\* x comes before it in the root.
C20_Witness ==
    /\ dpc = "ok"
    /\ Len(new_subfs_uris) = 1
    /\ new_subfs_uris[1][2] = <<"y">>
    /\ \E e \in SeqRange(WorkingTreeBefore(1).entries) :
            e.name = "x" /\ e.node.type = "directory"
    /\ \E d \in DirectoriesBelow(WorkingTreeBefore(1)) :
            /\ d = DirectoryAt(WorkingTreeBefore(1), <<"x">>)
            /\ estimate_directory_size(d) < estimate_directory_size(subfsRecords[new_subfs_uris[1][1]].root)

\* The files of the local tree are spread evenly over its top-level
\* subdirectories: the root holds directories only, each with the same number
\* of files and nothing else.
EvenTree(dir) ==
    /\ dir.entries # <<>>
    /\ \A e \in SeqRange(dir.entries) :
            /\ e.node.type = "dir"
            /\ e.node.entries # <<>>
            /\ Len(e.node.entries) = Len(dir.entries[1].node.entries)
            /\ \A f \in SeqRange(e.node.entries) : f.node.type = "file"

\* The serialized size of the root of an even tree of k subdirectories with n
\* files each, after s of them have been replaced by subfs nodes.
EvenSizeAfter(k, n, s) ==
    DirJson + s * (EntryJson + SubfsJson)
            + (k - s) * (EntryJson + DirJson + n * (EntryJson + FileJson))

\* s splits bring an even tree within both budgets.
EvenFitsAfter(k, n, s) ==
    /\ s <= k
    /\ k * n - s * n <= TARGET_FILE_COUNT
    /\ EvenSizeAfter(k, n, s) <= MAX_MANIFEST_SIZE

\* The run is past the split loop.
SplitLoopLeft ==
    \/ dpc \in {"commit", "cleanup", "ok"}
    \/ dpc = "err" /\ deployError \in {"put_root", "budget"}

C15_ErrorOnlyIfPending ==
    /\ round_iteration <= MAX_ITERATIONS
    /\ xpc = "err" => round_to_fetch # <<>>

\* C16 (as stated): a subfs URI fetched in an earlier round of the expansion
\* is not among the URIs to fetch in a later round.
C16_NoRefetch ==
    \A f \in SeqRange(round_to_fetch) : f[1] \notin fetched_uris

\* The entries of piece are the entries of a fetched record, in order: the
\* same names, and the same node wherever the record's entry is a file or a
\* directory.
SameEntries(piece, shard_entries) ==
    /\ Len(piece) = Len(shard_entries)
    /\ \A i \in 1..Len(piece) :
            /\ piece[i].name = shard_entries[i].name
            /\ shard_entries[i].node.type # "subfs" => piece[i].node = shard_entries[i].node

\* The entries result are what the entries of the parent become: a resolved
\* subfs node with flat = false gives one directory of its own name holding the
\* record's entries, any other resolved subfs node gives the record's entries
\* themselves, an unresolved one gives nothing, and every other entry stays,
\* all in the parent's order.
RECURSIVE ExpandedInPlace(_, _, _)
ExpandedInPlace(result, parent_entries, current_path) ==
    IF parent_entries = <<>> THEN result = <<>>
    ELSE LET entry == Head(parent_entries)
             full_path == JoinPath(current_path, entry.name)
         IN  CASE entry.node.type = "subfs" /\ full_path \in DOMAIN round_subfs_map ->
                    LET shard_entries == round_subfs_map[full_path].entries
                    IN  IF entry.node.flat = "false"
                        THEN /\ result # <<>>
                             /\ Head(result).name = entry.name
                             /\ Head(result).node.type = "directory"
                             /\ SameEntries(Head(result).node.entries, shard_entries)
                             /\ ExpandedInPlace(Tail(result), Tail(parent_entries), current_path)
                        ELSE /\ Len(result) >= Len(shard_entries)
                             /\ SameEntries(SubSeq(result, 1, Len(shard_entries)), shard_entries)
                             /\ ExpandedInPlace(SubSeq(result, Len(shard_entries) + 1, Len(result)),
                                                Tail(parent_entries), current_path)
               [] entry.node.type = "subfs" /\ full_path \notin DOMAIN round_subfs_map ->
                    ExpandedInPlace(result, Tail(parent_entries), current_path)
               [] entry.node.type = "directory" ->
                    /\ result # <<>>
                    /\ Head(result).name = entry.name
                    /\ Head(result).node.type = "directory"
                    /\ ExpandedInPlace(Head(result).node.entries, entry.node.entries, full_path)
                    /\ ExpandedInPlace(Tail(result), Tail(parent_entries), current_path)
               [] OTHER ->
                    /\ result # <<>>
                    /\ Head(result) = entry
                    /\ ExpandedInPlace(Tail(result), Tail(parent_entries), current_path)

\* C17: in the expanded tree a resolved subfs node named n with flat = false
\* has become, at its position, one directory named n whose entries are the
\* record's entries; one with flat = true has become the record's entries
\* themselves, at its position and with no wrapper named n; the other entries
\* of the parent keep their order.
C17_NestedOrFlatInPlace ==
    xpc = "done" => ExpandedInPlace(xresult.entries, fsRecord.root.entries, <<>>)

\* C17 witness: an expansion has resolved a subfs node with flat = false and
\* one with flat = true in the same tree.
C17_Witness ==
    /\ xpc = "done"
    /\ \E m, n \in SeqRange(extract_subfs_uris(fsRecord.root.entries, <<>>)) :
            /\ m[2] \in DOMAIN round_subfs_map
            /\ n[2] \in DOMAIN round_subfs_map
            /\ m[1] = NestedUri
            /\ n[1] = LeafUri
    /\ \E e \in SeqRange(fsRecord.root.entries) :
            e.node.type = "subfs" /\ e.node.flat = "true"
    /\ Len(xresult.entries) = 2

\* What the rounds fetch when every request goes through.
AllFetchedMap ==
    FetchRounds(extract_subfs_uris(fsRecord.root.entries, <<>>), EmptyMap, 0,
                subfsRecords, DOMAIN subfsRecords).all_subfs_map

\* The record fetched for mount_path without the subfs entries whose own fetch
\* failed.
WithoutFailed(subfs_dir, mount_path) ==
    DirectoryNode(SelectSeq(subfs_dir.entries,
        LAMBDA e : ~(e.node.type = "subfs" /\ JoinPath(mount_path, e.name) \in failed_paths)))

\* The tree the expansion gives when every request goes through, without the
\* entries of the subfs nodes whose fetch failed.
ExpectedWithoutFailed ==
    replace_subfs_with_content(fsRecord.root,
        [path \in (DOMAIN AllFetchedMap) \ failed_paths |->
            WithoutFailed(AllFetchedMap[path], path)],
        <<>>)

\* C14 (as stated): when the fetch of a subfs node's record fails, the
\* expansion succeeds all the same; the expanded tree has no entry for that
\* subfs node, and everything else is as it would be had the fetch succeeded.
C14_FailedFetchDropped ==
    (xpc \in {"done", "err"} /\ failed_paths # {}) =>
        /\ expand_subfs_in_pull(fsRecord.root, subfsRecords, DOMAIN subfsRecords).ok
                => xpc = "done"
        /\ xpc = "done" => xresult = ExpectedWithoutFailed

\* after is before with the node at path replaced by replacement and nothing
\* else changed: the same names at the same positions, and the same node at
\* every entry off the path.
RECURSIVE ChangedOnlyAt(_, _, _, _)
ChangedOnlyAt(before, after, path, replacement) ==
    /\ after.type = "directory"
    /\ Len(after.entries) = Len(before.entries)
    /\ \A i \in 1..Len(before.entries) :
            /\ after.entries[i].name = before.entries[i].name
            /\ IF before.entries[i].name # Head(path)
               THEN after.entries[i].node = before.entries[i].node
               ELSE IF Len(path) = 1
               THEN after.entries[i].node = replacement
               ELSE ChangedOnlyAt(before.entries[i].node, after.entries[i].node,
                                  Tail(path), replacement)

\* C21: replace_directory_with_subfs, called on a tree with unique entry names
\* and the path of one of its directories, returns the tree with that entry,
\* at its position and under its name, turned into a subfs node with the given
\* URI and flat value, and with every other entry at every depth as it was.
C21_ReplaceChangesOneEntry ==
    \A i \in 1..Len(calls) :
        calls[i].fn = "replace_directory_with_subfs" =>
            ChangedOnlyAt(calls[i].args[1], calls[i].result, calls[i].args[2],
                          SubfsNode(calls[i].args[3], calls[i].args[4]))

\* C21 witness: a directory one level down has been replaced in a tree whose
\* root holds another directory as well.
C21_Witness ==
    \E i \in 1..Len(calls) :
        /\ calls[i].fn = "replace_directory_with_subfs"
        /\ Len(calls[i].args[2]) = 2
        /\ Len(calls[i].args[1].entries) = 2
        /\ calls[i].result # calls[i].args[1]

\* C22: a file that cannot be read, encoded or uploaded while the tree is
\* built ends the deploy with an error: the step that leaves the build either
\* carries the complete tree of the local directory or goes to the error
\* state, it writes no record, and no later step of the failed run writes the
\* root manifest or a shard, so the previous manifest stays as it was.
C22_BuildFailureWritesNothing ==
    [][ /\ (dpc = "build" /\ dpc' # "build") =>
            /\ UNCHANGED <<serveVars, fsRecord, subfsRecords>>
            /\ \/ dpc' = "err" /\ deployError' = "build"
               \/ working_directory' =
                      build_directory(localDir, existing_blob_map, <<>>, NoPath).directory
        /\ (dpc = "err" /\ deployError = "build") =>
            UNCHANGED <<serveVars, fsRecord, subfsRecords>> ]_vars

C22_Witness ==
    /\ dpc = "err"
    /\ deployError = "build"
    /\ fsRecord # NoRecord
    /\ uploads # <<>>

\* The names of a tree, at any depth.
RECURSIVE NamesIn(_)
NamesIn(node) ==
    IF node.type = "directory"
    THEN UNION {{node.entries[i].name} \cup NamesIn(node.entries[i].node) :
                    i \in 1..Len(node.entries)}
    ELSE {}

\* The files of a local directory that are not hidden and not below a hidden
\* directory.
RECURSIVE VisibleFiles(_)
VisibleFiles(dir) ==
    SumSeq([i \in 1..Len(dir.entries) |->
        IF dir.entries[i].name \in HiddenNames THEN 0
        ELSE IF dir.entries[i].node.type = "file" THEN 1
        ELSE VisibleFiles(dir.entries[i].node)])

\* C23: no entry with a hidden name (".env") and no ".git", at any depth, is
\* in the tree build_directory returns, is counted in its total_files, or is
\* uploaded.
C23_HiddenEntriesSkipped ==
    \A i \in 1..Len(calls) :
        calls[i].fn = "build_directory" =>
            /\ NamesIn(calls[i].result.directory) \cap HiddenNames = {}
            /\ calls[i].result.total_files = VisibleFiles(calls[i].args[1])
            /\ \A u \in SeqRange(calls[i].result.uploads) :
                   SeqRange(u) \cap HiddenNames = {}

\* What the code does keep out: ".git" is skipped at every depth.
GitEntriesSkipped ==
    \A i \in 1..Len(calls) :
        calls[i].fn = "build_directory" =>
            /\ ".git" \notin NamesIn(calls[i].result.directory)
            /\ \A u \in SeqRange(calls[i].result.uploads) : ".git" \notin SeqRange(u)

\* Every File leaf of the expanded tree is in the staging directory, and so is
\* the new metadata file.
StagingComplete(dir) ==
    /\ dir.exists
    /\ \A leaf \in FileLeaves(expanded_root, <<>>) : leaf[1] \in DOMAIN dir.files
    /\ dir.metadata = SiteMetadata(record_cid, FileCids(extract_blob_map(expanded_root)))

\* C24: in a pull run (the user's own edits between runs set dest_touched)
\* the destination changes only in the swap step (the
\* removal of the previous destination and the rename of the staging
\* directory, or the move of its entries into the working directory), and the swap step is entered only when every File leaf of the
\* expanded tree is staged and the new metadata is written into the staging
\* directory.
C24_SwapOnlyAfterStaging ==
    [][ /\ (destDir' # destDir /\ dest_touched' = dest_touched) =>
               ppc \in {"remove", "rename", "move"}
        /\ (ppc \notin {"remove", "rename", "move"} /\ ppc' \in {"remove", "rename", "move"}) =>
               StagingComplete(tempDir')
        /\ ppc \in {"remove", "rename", "move"} => StagingComplete(tempDir) ]_vars

C24_Witness ==
    /\ ppc = "rename"
    /\ prevDest.exists
    /\ prevDest.files # EmptyMap
    /\ ~destDir.exists
    /\ downloaded_paths # <<>>
    /\ copied_paths # <<>>

\* The directory is what a completed pull of the current remote record leaves:
\* the metadata names the remote revision and the content ids of the expanded
\* tree, and the files on disk are the File leaves of that tree.
CompletedPull(dir) ==
    /\ dir.exists
    /\ dir.metadata = SiteMetadata(recordVersion, FileCids(extract_blob_map(expanded_root)))
    /\ DOMAIN dir.files = {leaf[1] : leaf \in FileLeaves(expanded_root, <<>>)}

\* C25: a pull that starts from the untouched destination of a completed pull
\* of the same remote record downloads no blob, and leaves the destination
\* with the same site files and the same stored content id for every path.
C25_PullIdempotent ==
    (ppc \in {"ok", "uptodate"} /\ ~dest_touched /\ CompletedPull(prevDest)) =>
        /\ downloaded = 0
        /\ destDir.files = prevDest.files
        /\ destDir.metadata.record_cid = prevDest.metadata.record_cid
        /\ destDir.metadata.file_cids = prevDest.metadata.file_cids

C25_Witness ==
    /\ ppc = "ok"
    /\ ~dest_touched
    /\ CompletedPull(prevDest)
    /\ copied_paths # <<>>
    /\ destDir.files = prevDest.files

\* C26: pull returns early only when the stored record id is the remote one
\* and the site files are on disk; with a recorded site file missing, at any
\* depth, it does not return early.  The recorded files are the File leaves of
\* the expanded tree, the stored metadata being that of this tree.
C26_EarlyExitOnlyIfFilesPresent ==
    (/\ ppc = "uptodate"
     /\ all_fetched
     /\ destDir.metadata.file_cids = FileCids(extract_blob_map(expanded_root))) =>
        /\ destDir.metadata.record_cid = recordVersion
        /\ \A leaf \in FileLeaves(expanded_root, <<>>) : leaf[1] \in DOMAIN destDir.files

\* C27: in every round of the subfs expansion of pull the fetches in flight
\* at the same time stay within the fan-out bound, however many references
\* are pending.
C27_BoundedFetchesPerRound ==
    round_in_flight <= SUBFS_FETCH_CONCURRENCY

\* The paths of the files directly in the directory at a path of the walked
\* tree.
RECURSIVE FilesDirectlyIn(_, _, _)
FilesDirectlyIn(mode, dir, path) ==
    IF path = <<>>
    THEN {<<name>> : name \in SeqRange(TransferFiles(mode, dir))}
    ELSE UNION {{<<Head(path)>> \o rest :
                    rest \in FilesDirectlyIn(mode, sub.node, Tail(path))} :
                sub \in {e \in SeqRange(TransferDirs(mode, dir)) : e.name = Head(path)}}

\* The directory a file path lies in.
ParentOf(path) == SubSeq(path, 1, Len(path) - 1)

\* C28: at every moment at most UPLOAD_CONCURRENCY uploads (deploy) or
\* DOWNLOAD_CONCURRENCY downloads (pull) are in flight over the whole tree:
\* the tasks in flight are files of one directory, the one being processed,
\* and a file of a directory is started only when every file of each
\* directory above it has completed.
C28_BoundedTransfers ==
    /\ Cardinality(tflight) <= TransferLimit(tmode)
    /\ \A path \in tflight : ParentOf(path) = CurrentFrame.path
    /\ \A path \in tflight \cup tdone :
        \A k \in 0..(Len(path) - 2) :
            FilesDirectlyIn(tmode, ttree, SubSeq(path, 1, k)) \subseteq tdone

C28_Witness ==
    /\ tmode = "pull"
    /\ Len(tframes) = 2
    /\ Cardinality(tflight) = DOWNLOAD_CONCURRENCY
    /\ tqueue # <<>>
    /\ tdone # {}

IsBase64(bytes) == Len(bytes) = 2 /\ bytes[1] = "b64"
IsGzip(bytes) == Len(bytes) = 2 /\ bytes[1] = "gz"

C35_BudgetErrorOnlyIfOverBudget ==
    (dpc = "err" /\ deployError = "budget") =>
        ~FitsLimits(manifest_size, current_file_count)

\* A tree holds a subfs node, at any depth.
RECURSIVE HasSubfsNode(_)
HasSubfsNode(directory) ==
    \E i \in 1..Len(directory.entries) :
        \/ directory.entries[i].node.type = "subfs"
        \/ /\ directory.entries[i].node.type = "directory"
           /\ HasSubfsNode(directory.entries[i].node)

\* C38: the tree expand_subfs_in_pull returns holds no subfs node at any
\* depth, whichever fetches went through and whichever failed.
C38_NoSubfsAfterExpansion ==
    xpc = "done" => ~HasSubfsNode(xresult)

\* The expansion of a root with subfs nodes has returned after a fetch that
\* failed and the fetch of a record that itself holds a subfs node.
C38_Witness ==
    /\ xpc = "done"
    /\ HasSubfsNode(fsRecord.root)
    /\ failed_paths # {}
    /\ NestedUri \in fetched_uris
    /\ ~HasSubfsNode(xresult)

\* The paths of the File leaves of a tree.
LeafPaths(directory) == {leaf[1] : leaf \in FileLeaves(directory, <<>>)}

\* C33: after a successful pull the destination holds every File leaf of the
\* expanded tree and the metadata file, and a file of the previous snapshot
\* (the destination as the run found it, the user not having edited it) that
\* is not in the new tree exists no longer, with the rename swap and with the
\* move of the entries into the working directory alike.
C33_DestinationIsNewSnapshot ==
    (ppc = "ok" /\ ~dest_touched) =>
        /\ destDir.metadata.type = "meta"
        /\ LeafPaths(expanded_root) \subseteq DOMAIN destDir.files
        /\ \A path \in DOMAIN prevDest.files :
            path \notin LeafPaths(expanded_root) => path \notin DOMAIN destDir.files

\* The same for the pulls that swap by rename.
SwapLeavesNewSnapshot ==
    (ppc = "ok" /\ ~dest_touched /\ ~to_cwd) =>
        DOMAIN destDir.files = LeafPaths(expanded_root)

\* The directory is what a completed pull leaves when some subfs fetch of its
\* expansion failed and the subtree was dropped.
LeftByPartialPull(dir) ==
    \E fetchable \in SUBSET RelevantUris :
        /\ fetchable # RelevantUris
        /\ expand_subfs_in_pull(fsRecord.root, subfsRecords, fetchable).ok
        /\ LET partial == expand_subfs_in_pull(fsRecord.root, subfsRecords, fetchable).directory
           IN  /\ dir.exists
               /\ dir.metadata = SiteMetadata(recordVersion, FileCids(extract_blob_map(partial)))
               /\ DOMAIN dir.files = LeafPaths(partial)

\* C34: a pull that finds the untouched destination of a pull whose subfs
\* fetch had failed, with the remote record unchanged and every subfs record
\* fetched this time, leaves the destination with every File leaf of the
\* expanded tree: it does not return early on the snapshot that lacks them.
C34_LaterPullMaterializes ==
    (/\ ppc \in {"ok", "uptodate"}
     /\ all_fetched
     /\ ~dest_touched
     /\ LeftByPartialPull(prevDest)) =>
        LeafPaths(expanded_root) \subseteq DOMAIN destDir.files

\* C37: while a pull replaces the destination, a file that has the same path
\* and content in the previous snapshot and in the new tree is in the
\* destination at every moment, so a request for it is never answered
\* not found.
C37_UnchangedFileAlwaysThere ==
    ppc \in {"download", "metadata", "remove", "rename", "move", "ok"} =>
        \A leaf \in FileLeaves(expanded_root, <<>>) :
            (/\ leaf[1] \in DOMAIN prevDest.files
             /\ compute_cid(CanonicalBytes(prevDest.files[leaf[1]])) = leaf[2]) =>
                leaf[1] \in DOMAIN destDir.files

\* ---------------------------------------------------------------- redirects

\* Strings are sequences of characters.  char::is_whitespace on the characters
\* of the files considered.
Whitespace == {" ", "\t"}

\* The decimal digits with their values.
Digit ==
    ("0" :> 0) @@ ("1" :> 1) @@ ("2" :> 2) @@ ("3" :> 3) @@ ("4" :> 4)
    @@ ("5" :> 5) @@ ("6" :> 6) @@ ("7" :> 7) @@ ("8" :> 8) @@ ("9" :> 9)

\* [a-zA-Z_] and [a-zA-Z0-9_] on the letters the files considered use.
IdentStart == {"a", "b", "c", "d", "k", "l", "n", "p", "s", "t", "_"}
IdentChar == IdentStart \cup DOMAIN Digit

Take(s, k) == SubSeq(s, 1, k)
Drop(s, k) == SubSeq(s, k + 1, Len(s))

\* str::starts_with
StartsWith(s, prefix) == Len(s) >= Len(prefix) /\ Take(s, Len(prefix)) = prefix

\* str::contains(char)
Contains(s, ch) == \E i \in 1..Len(s) : s[i] = ch

\* str::find(char): the first position, 0 when there is none.
Find(s, ch) == IF Contains(s, ch) THEN CHOOSE i \in 1..Len(s) : s[i] = ch /\ ~Contains(Take(s, i - 1), ch)
               ELSE 0

RECURSIVE TrimStart(_)
TrimStart(s) == IF s # <<>> /\ s[1] \in Whitespace THEN TrimStart(Tail(s)) ELSE s

RECURSIVE TrimEnd(_)
TrimEnd(s) == IF s # <<>> /\ s[Len(s)] \in Whitespace THEN TrimEnd(Take(s, Len(s) - 1)) ELSE s

\* str::trim
Trim(s) == TrimEnd(TrimStart(s))

\* The pieces of s between the separators, empty pieces included.
RECURSIVE SplitAt(_, _, _)
SplitAt(s, seps, piece) ==
    IF s = <<>> THEN <<piece>>
    ELSE IF s[1] \in seps THEN <<piece>> \o SplitAt(Tail(s), seps, <<>>)
    ELSE SplitAt(Tail(s), seps, Append(piece, s[1]))

\* str::split_whitespace
split_whitespace(s) == SelectSeq(SplitAt(s, Whitespace, <<>>), LAMBDA piece : piece # <<>>)

\* str::lines: a final newline ends the last line and opens no empty one.
Lines(content) ==
    LET pieces == SplitAt(content, {"\n"}, <<>>)
    IN  IF pieces[Len(pieces)] = <<>> THEN Take(pieces, Len(pieces) - 1) ELSE pieces

RECURSIVE DecimalValue(_)
DecimalValue(digits) ==
    IF digits = <<>> THEN 0
    ELSE 10 * DecimalValue(Take(digits, Len(digits) - 1)) + Digit[digits[Len(digits)]]

\* str::parse::<u16>: decimal digits after an optional plus sign, at most 65535.
parse_u16(s) ==
    LET digits == IF s # <<>> /\ s[1] = "+" THEN Tail(s) ELSE s
        ok == /\ digits # <<>>
              /\ \A i \in 1..Len(digits) : digits[i] \in DOMAIN Digit
              /\ Len(digits) <= 6
              /\ DecimalValue(digits) <= 65535
    IN  [ok |-> ok, value |-> IF ok THEN DecimalValue(digits) ELSE 0]

\* str::replace: the matches are found left to right in the original text, and
\* what was put in is not searched again.
RECURSIVE Replace(_, _, _)
Replace(s, from, to) ==
    IF Len(s) < Len(from) THEN s
    ELSE IF StartsWith(s, from) THEN to \o Replace(Drop(s, Len(from)), from, to)
    ELSE <<s[1]>> \o Replace(Tail(s), from, to)

\* The regular expression convert_path_to_regex builds, as its tokens: a
\* literal character (escaped where the regex syntax needs it), ([^/?]+),
\* (.*) and the final /?.
Lit(ch) == [t |-> "lit", ch |-> ch]
ParamGroup == [t |-> "param"]
SplatGroup == [t |-> "splat"]
OptSlash == [t |-> "optslash"]

\* The longest run of identifier characters s starts with.
RECURSIVE IdentPrefix(_)
IdentPrefix(s) ==
    IF s # <<>> /\ s[1] \in IdentChar THEN <<s[1]>> \o IdentPrefix(Tail(s)) ELSE <<>>

\* Lines 158-189: the path part character by character; :name becomes a group
\* and its name a parameter, * becomes the splat group.
RECURSIVE PatternTokens(_)
PatternTokens(s) ==
    IF s = <<>> THEN [tokens |-> <<>>, params |-> <<>>]
    ELSE IF s[1] = ":" /\ Len(s) >= 2 /\ s[2] \in IdentStart
    THEN LET name == IdentPrefix(Tail(s))
             rest == PatternTokens(Drop(s, 1 + Len(name)))
         IN  [tokens |-> <<ParamGroup>> \o rest.tokens, params |-> <<name>> \o rest.params]
    ELSE LET rest == PatternTokens(Tail(s))
         IN  [tokens |-> <<IF s[1] = "*" THEN SplatGroup ELSE Lit(s[1])>> \o rest.tokens,
              params |-> rest.params]

SplatName == <<"s", "p", "l", "a", "t">>

\* convert_path_to_regex.  The name splat is pushed once, after the names of
\* the placeholders, wherever the * stands (lines 186-189); the test at 194
\* looks for a final .* where the text ends in .*) and so always adds /?.
convert_path_to_regex(pattern) ==
    LET path_part == IF Contains(pattern, "?") THEN Take(pattern, Find(pattern, "?") - 1)
                     ELSE pattern
        parsed == PatternTokens(path_part)
    IN  [regex |-> parsed.tokens \o <<OptSlash>>,
         params |-> parsed.params
                    \o (IF Contains(path_part, "*") THEN <<SplatName>> ELSE <<>>)]

\* Regex::captures on the anchored expression: the groups in the order of
\* their opening parentheses, each as long as the rest of the match allows.
RECURSIVE RegexCaptures(_, _)
RegexCaptures(tokens, s) ==
    IF tokens = <<>> THEN [ok |-> s = <<>>, groups |-> <<>>]
    ELSE LET token == tokens[1]
             After(k) == RegexCaptures(Tail(tokens), Drop(s, k))
             lengths ==
                CASE token.t = "lit" -> IF s # <<>> /\ s[1] = token.ch THEN {1} ELSE {}
                  [] token.t = "optslash" -> IF s # <<>> /\ s[1] = "/" THEN {0, 1} ELSE {0}
                  [] token.t = "param" ->
                        {k \in 1..Len(s) : \A i \in 1..k : s[i] \notin {"/", "?"}}
                  [] OTHER -> 0..Len(s)
             good == {k \in lengths : After(k).ok}
         IN  IF good = {} THEN [ok |-> FALSE, groups |-> <<>>]
             ELSE LET k == CHOOSE longest \in good : \A other \in good : other <= longest
                  IN  [ok |-> TRUE,
                       groups |-> (IF token.t \in {"param", "splat"} THEN <<Take(s, k)>> ELSE <<>>)
                                  \o After(k).groups]
\* The rule limit, scaled.
MAX_REDIRECT_RULES == 3

NoQuery == [present |-> FALSE, params |-> EmptyMap]
Query(params) == [present |-> TRUE, params |-> params]

\* Lines 82-105: the parts between the source and the destination that hold
\* an = are query conditions.
RECURSIVE QueryParts(_, _, _)
QueryParts(parts, idx, query_params) ==
    IF idx > Len(parts) THEN [idx |-> idx, query_params |-> query_params]
    ELSE LET part == parts[idx]
         IN  IF \/ StartsWith(part, <<"/">>)
                \/ StartsWith(part, <<"h", "t", "t", "p", ":", "/", "/">>)
                \/ StartsWith(part, <<"h", "t", "t", "p", "s", ":", "/", "/">>)
             THEN [idx |-> idx, query_params |-> query_params]
             ELSE IF Contains(part, "=")
             THEN LET split_index == Find(part, "=")
                      key == Take(part, split_index - 1)
                      value == Drop(part, split_index)
                  IN  QueryParts(parts, idx + 1,
                                 IF key # <<>> /\ value # <<>>
                                 THEN MapInsert(query_params, key, value)
                                 ELSE query_params)
             ELSE [idx |-> idx, query_params |-> query_params]

\* Lines 115-124: every part after the destination that parses as a status,
\* with or without a final !, sets the status; the last one wins.
RECURSIVE StatusParts(_, _, _, _)
StatusParts(parts, idx, status, force) ==
    IF idx > Len(parts) THEN [status |-> status, force |-> force]
    ELSE LET part == parts[idx]
         IN  IF part[Len(part)] = "!"
             THEN LET stripped == parse_u16(Take(part, Len(part) - 1))
                  IN  IF stripped.ok THEN StatusParts(parts, idx + 1, stripped.value, TRUE)
                      ELSE StatusParts(parts, idx + 1, status, force)
             ELSE IF parse_u16(part).ok
             THEN StatusParts(parts, idx + 1, parse_u16(part).value, force)
             ELSE StatusParts(parts, idx + 1, status, force)

NoRule == [kind |-> "none"]

\* A parser that takes 302 for the default status.
parse_redirect_line_302(line) ==
    LET parts == split_whitespace(line)
    IN  IF Len(parts) < 2 THEN NoRule
        ELSE LET scan == QueryParts(parts, 2, EmptyMap)
             IN  IF scan.idx > Len(parts) THEN NoRule
                 ELSE LET tail == StatusParts(parts, scan.idx + 1, 302, FALSE)
                          compiled == convert_path_to_regex(parts[1])
                      IN  [kind |-> "rule", from |-> parts[1], to |-> parts[scan.idx],
                           status |-> tail.status, force |-> tail.force,
                           from_pattern |-> compiled.regex, from_params |-> compiled.params,
                           query_params |-> IF scan.query_params = EmptyMap THEN NoQuery
                                            ELSE Query(scan.query_params)]

\* parse_redirect_line.  The expression built from the escaped source always
\* compiles, so the Err of line 130 does not arise.
parse_redirect_line(line) ==
    LET parts == split_whitespace(line)
    IN  IF Len(parts) < 2 THEN NoRule
        ELSE LET scan == QueryParts(parts, 2, EmptyMap)
             IN  IF scan.idx > Len(parts) THEN NoRule
                 ELSE LET tail == StatusParts(parts, scan.idx + 1, 301, FALSE)
                          compiled == convert_path_to_regex(parts[1])
                      IN  [kind |-> "rule", from |-> parts[1], to |-> parts[scan.idx],
                           status |-> tail.status, force |-> tail.force,
                           from_pattern |-> compiled.regex, from_params |-> compiled.params,
                           query_params |-> IF scan.query_params = EmptyMap THEN NoQuery
                                            ELSE Query(scan.query_params)]

\* Lines 34-59: the loop over the lines, with the rules pushed so far.
RECURSIVE ParseLines(_, _)
ParseLines(lines, rules) ==
    IF lines = <<>> THEN rules
    ELSE LET line_raw == lines[1]
         IN  IF Trim(line_raw) = <<>> \/ StartsWith(Trim(line_raw), <<"#">>)
             THEN ParseLines(Tail(lines), rules)
             ELSE IF Len(rules) >= MAX_REDIRECT_RULES THEN rules
             ELSE LET parsed == parse_redirect_line(Trim(line_raw))
                  IN  ParseLines(Tail(lines),
                                 IF parsed.kind = "rule" THEN Append(rules, parsed) ELSE rules)

parse_redirects_file(content) == ParseLines(Lines(content), <<>>)

\* Lines 220-242: the query conditions of a rule against the request's query.
QueryMatches(rule, query_params) ==
    rule.query_params.present =>
        /\ query_params.present
        /\ \A key \in DOMAIN rule.query_params.params :
            /\ key \in DOMAIN query_params.params
            /\ \/ StartsWith(rule.query_params.params[key], <<":">>)
               \/ query_params.params[key] = rule.query_params.params[key]

\* Lines 249-259: the parameters in their order, each replaced by the group
\* of its position.
RECURSIVE ReplaceCaptured(_, _, _, _)
ReplaceCaptured(target_path, from_params, groups, i) ==
    IF i > Len(from_params) THEN target_path
    ELSE ReplaceCaptured(
            IF i <= Len(groups)
            THEN Replace(target_path, <<":">> \o from_params[i], groups[i])
            ELSE target_path,
            from_params, groups, i + 1)

\* Lines 262-276: the placeholders of the query conditions.  The maps hold at
\* most one key here, so the order of the HashMap plays no part.
RECURSIVE ReplaceQueryPlaceholders(_, _, _, _)
ReplaceQueryPlaceholders(target_path, required_params, actual_params, keys) ==
    IF keys = {} THEN target_path
    ELSE LET key == CHOOSE k \in keys : TRUE
             placeholder == required_params[key]
         IN  ReplaceQueryPlaceholders(
                IF StartsWith(placeholder, <<":">>) /\ key \in DOMAIN actual_params
                THEN Replace(target_path, placeholder, actual_params[key])
                ELSE target_path,
                required_params, actual_params, keys \ {key})

\* Lines 279-293: k=v&... of the request's query.
RECURSIVE QueryString(_, _)
QueryString(params, keys) ==
    IF keys = {} THEN <<>>
    ELSE LET key == CHOOSE k \in keys : TRUE
         IN  key \o <<"=">> \o params[key]
             \o (IF keys = {key} THEN <<>> ELSE <<"&">> \o QueryString(params, keys \ {key}))

NoMatch == [kind |-> "none"]

\* Lines 244-300 for one rule whose pattern matched with these groups.
RedirectMatch(rule, groups, query_params) ==
    LET replaced == ReplaceCaptured(rule.to, rule.from_params, groups, 1)
        with_query ==
            IF rule.query_params.present /\ query_params.present
            THEN ReplaceQueryPlaceholders(replaced, rule.query_params.params,
                                          query_params.params,
                                          DOMAIN rule.query_params.params)
            ELSE replaced
        target_path ==
            IF /\ rule.status \in {200, 301, 302}
               /\ query_params.present
               /\ ~Contains(with_query, "?")
               /\ query_params.params # EmptyMap
            THEN with_query \o <<"?">>
                 \o QueryString(query_params.params, DOMAIN query_params.params)
            ELSE with_query
    IN  [kind |-> "match", target_path |-> target_path, status |-> rule.status,
         force |-> rule.force]

\* A matcher that keeps looking and returns the last rule that matches.
RECURSIVE match_redirect_rule_last(_, _, _)
match_redirect_rule_last(request_path, rules, query_params) ==
    IF rules = <<>> THEN NoMatch
    ELSE LET normalized_path == IF StartsWith(request_path, <<"/">>) THEN request_path
                                ELSE <<"/">> \o request_path
             rule == rules[Len(rules)]
             captures == RegexCaptures(rule.from_pattern, normalized_path)
         IN  IF QueryMatches(rule, query_params) /\ captures.ok
             THEN RedirectMatch(rule, captures.groups, query_params)
             ELSE match_redirect_rule_last(request_path, Take(rules, Len(rules) - 1),
                                           query_params)

\* match_redirect_rule: the rules in order, the first match returned.
RECURSIVE match_redirect_rule(_, _, _)
match_redirect_rule(request_path, rules, query_params) ==
    IF rules = <<>> THEN NoMatch
    ELSE LET normalized_path == IF StartsWith(request_path, <<"/">>) THEN request_path
                                ELSE <<"/">> \o request_path
             rule == rules[1]
             captures == RegexCaptures(rule.from_pattern, normalized_path)
         IN  IF QueryMatches(rule, query_params) /\ captures.ok
             THEN RedirectMatch(rule, captures.groups, query_params)
             ELSE match_redirect_rule(request_path, Tail(rules), query_params)
\* The _redirects files considered, each given with its text.
RedirectFiles ==
    { \* "/a /b"
      <<"/", "a", " ", "/", "b">>,
      \* "/a /b 302"
      <<"/", "a", " ", "/", "b", " ", "3", "0", "2">>,
      \* "/a /b 301!"
      <<"/", "a", " ", "/", "b", " ", "3", "0", "1", "!">>,
      \* "/a /b 307!"
      <<"/", "a", " ", "/", "b", " ", "3", "0", "7", "!">>,
      \* "/a /b 200"
      <<"/", "a", " ", "/", "b", " ", "2", "0", "0">>,
      \* "/a /b 404!"
      <<"/", "a", " ", "/", "b", " ", "4", "0", "4", "!">>,
      \* "  /a   /b  302!  "
      <<" ", " ", "/", "a", " ", " ", " ", "/", "b", " ", " ", "3", "0", "2", "!", " ", " ">>,
      \* "# /a /b"
      <<"#", " ", "/", "a", " ", "/", "b">>,
      \* ""
      <<>>,
      \* "  \n# c\n"
      <<" ", " ", "\n", "#", " ", "c", "\n">>,
      \* "/a"
      <<"/", "a">>,
      \* "/a /b 99999"
      <<"/", "a", " ", "/", "b", " ", "9", "9", "9", "9", "9">>,
      \* "/a /b +302"
      <<"/", "a", " ", "/", "b", " ", "+", "3", "0", "2">>,
      \* "/n/* /b/:splat"
      <<"/", "n", "/", "*", " ", "/", "b", "/", ":", "s", "p", "l", "a", "t">>,
      \* "/p/:a/:b /q/:b-:a"
      <<"/", "p", "/", ":", "a", "/", ":", "b", " ", "/", "q", "/", ":", "b", "-", ":", "a">>,
      \* "/p/:a/:ab /q/:ab/:a"
      <<"/", "p", "/", ":", "a", "/", ":", "a", "b", " ", "/", "q", "/", ":", "a", "b", "/", ":", "a">>,
      \* "/s/*/:a /t/:a/:splat"
      <<"/", "s", "/", "*", "/", ":", "a", " ", "/", "t", "/", ":", "a", "/", ":", "s", "p", "l", "a", "t">>,
      \* "/a k=1 /c"
      <<"/", "a", " ", "k", "=", "1", " ", "/", "c">>,
      \* "/a k=:d /c/:d 302"
      <<"/", "a", " ", "k", "=", ":", "d", " ", "/", "c", "/", ":", "d", " ", "3", "0", "2">>,
      \* "/a k=1 /c\n/a /b"
      <<"/", "a", " ", "k", "=", "1", " ", "/", "c", "\n", "/", "a", " ", "/", "b">>,
      \* "/n/* /c\n/n/a /d 302"
      <<"/", "n", "/", "*", " ", "/", "c", "\n", "/", "n", "/", "a", " ", "/", "d", " ", "3", "0", "2">>,
      \* "/n/a /d 302\n/n/* /c"
      <<"/", "n", "/", "a", " ", "/", "d", " ", "3", "0", "2", "\n", "/", "n", "/", "*", " ", "/", "c">>,
      \* "# c\n\n/a /b 302\n"
      <<"#", " ", "c", "\n", "\n", "/", "a", " ", "/", "b", " ", "3", "0", "2", "\n">>,
      \* "/a /b\n/b /c\n/c /d\n/d /a"
      <<"/", "a", " ", "/", "b", "\n", "/", "b", " ", "/", "c", "\n", "/", "c", " ", "/", "d", "\n", "/", "d", " ", "/", "a">>,
      \* "/a /b 302 200!"
      <<"/", "a", " ", "/", "b", " ", "3", "0", "2", " ", "2", "0", "0", "!">>,
      \* "/a k=1"
      <<"/", "a", " ", "k", "=", "1">>,
      \* "/a b"
      <<"/", "a", " ", "b">>}

\* The request paths considered.
RequestPaths ==
    {<<"/", "a">>,
     <<"/", "a", "/">>,
     <<"a">>,
     <<"/", "b">>,
     <<"/", "d">>,
     <<"/", "n", "/", "a">>,
     <<"/", "n", "/", "a", "/", "b">>,
     <<"/", "n", "/">>,
     <<"/", "p", "/", "c", "/", "d">>,
     <<"/", "s", "/", "c", "/", "d">>,
     <<"/", "p", "/", "c">>,
     <<"/", "x">>}

\* The queries of the requests: none, an empty one, and one pair.
RequestQueries ==
    {NoQuery, Query(EmptyMap),
     Query(<<"k">> :> <<"1">>), Query(<<"k">> :> <<"2">>), Query(<<"l">> :> <<"1">>)}

MaxRedirectCalls == 1

\* parse_redirects_file is called on the text of a _redirects file.
ParseFileCall ==
    /\ Len(calls) < MaxRedirectCalls
    /\ \E content \in RedirectFiles :
        calls' = Append(calls, [fn |-> "parse_redirects_file", content |-> content,
                                result |-> parse_redirects_file(content)])
    /\ UNCHANGED <<serveVars, storeVars, deployVars, pullVars, expandVars, transferVars>>

\* match_redirect_rule is called with the rules of a file, a request path and
\* the request's query.
MatchCall ==
    /\ Len(calls) < MaxRedirectCalls
    /\ \E content \in RedirectFiles, request_path \in RequestPaths,
          query_params \in RequestQueries :
        calls' = Append(calls, [fn |-> "match_redirect_rule",
                                rules |-> parse_redirects_file(content),
                                request_path |-> request_path,
                                query_params |-> query_params,
                                result |-> match_redirect_rule(request_path,
                                               parse_redirects_file(content), query_params)])
    /\ UNCHANGED <<serveVars, storeVars, deployVars, pullVars, expandVars, transferVars>>


\* The names of the groups of a source pattern in the order of the groups:
\* the name of each placeholder, and splat for each *.
RECURSIVE GroupNames(_)
GroupNames(s) ==
    IF s = <<>> THEN <<>>
    ELSE IF s[1] = ":" /\ Len(s) >= 2 /\ s[2] \in IdentStart
    THEN <<IdentPrefix(Tail(s))>> \o GroupNames(Drop(s, 1 + Len(IdentPrefix(Tail(s)))))
    ELSE IF s[1] = "*" THEN <<SplatName>> \o GroupNames(Tail(s))
    ELSE GroupNames(Tail(s))

\* The text with each :name placeholder that has a captured value replaced by
\* that value, all at once.
RECURSIVE Substituted(_, _, _)
Substituted(s, names, groups) ==
    IF s = <<>> THEN <<>>
    ELSE IF s[1] = ":" /\ Len(s) >= 2 /\ s[2] \in IdentStart
    THEN LET name == IdentPrefix(Tail(s))
             rest == Substituted(Drop(s, 1 + Len(name)), names, groups)
         IN  IF \E i \in 1..Len(names) : names[i] = name
             THEN groups[CHOOSE i \in 1..Len(names) :
                            names[i] = name /\ \A j \in 1..(i - 1) : names[j] # name]
                  \o rest
             ELSE <<":">> \o name \o rest
    ELSE <<s[1]>> \o Substituted(Tail(s), names, groups)

NormalizedPath(request_path) ==
    IF StartsWith(request_path, <<"/">>) THEN request_path ELSE <<"/">> \o request_path

\* C31: for a rule without query conditions and a request without a query,
\* when the path matches the rule's source pattern the target returned is the
\* rule's target with every :name placeholder replaced by the text captured
\* for that name and :splat by the text the * matched; a rule without
\* placeholders matches exactly its own path, with or without a final slash,
\* and returns its target unchanged.
C31_PlaceholdersReplaced ==
    \A i \in DOMAIN calls :
        (/\ calls[i].fn = "match_redirect_rule"
         /\ Len(calls[i].rules) = 1
         /\ ~calls[i].rules[1].query_params.present
         /\ ~calls[i].query_params.present) =>
            LET rule == calls[i].rules[1]
                path == NormalizedPath(calls[i].request_path)
                captures == RegexCaptures(rule.from_pattern, path)
                names == GroupNames(rule.from)
            IN  /\ captures.ok =>
                    /\ calls[i].result.kind = "match"
                    /\ calls[i].result.target_path = Substituted(rule.to, names, captures.groups)
                /\ names = <<>> =>
                    /\ calls[i].result.kind = "match"
                            <=> path \in {rule.from, rule.from \o <<"/">>}
                    /\ calls[i].result.kind = "match" =>
                            calls[i].result.target_path = rule.to

\* The same for the rules whose placeholders are named so that no name begins
\* another, with the * after the placeholders.
PlainPlaceholdersReplaced ==
    \A i \in DOMAIN calls :
        (/\ calls[i].fn = "match_redirect_rule"
         /\ Len(calls[i].rules) = 1
         /\ ~calls[i].rules[1].query_params.present
         /\ ~calls[i].query_params.present
         /\ calls[i].rules[1].from_params = GroupNames(calls[i].rules[1].from)
         /\ \A m, n \in 1..Len(calls[i].rules[1].from_params) :
                m # n => ~StartsWith(calls[i].rules[1].from_params[m],
                                     calls[i].rules[1].from_params[n])
         /\ calls[i].result.kind = "match") =>
            calls[i].result.target_path =
                Substituted(calls[i].rules[1].to, GroupNames(calls[i].rules[1].from),
                            RegexCaptures(calls[i].rules[1].from_pattern,
                                          NormalizedPath(calls[i].request_path)).groups)

\* A token of decimal digits that is a status code.
IsStatus(token) ==
    /\ Len(token) = 3
    /\ \A i \in 1..Len(token) : token[i] \in DOMAIN Digit

\* C32: a file of one line "/from /to" gives one rule with status 301 and
\* force false; a status code after the destination sets the status; a status
\* code followed by ! sets the status and force; a file of blank lines and
\* lines that start with # gives no rule.
C32_ParsedLine ==
    \A i \in DOMAIN calls :
        calls[i].fn = "parse_redirects_file" =>
            LET lines == Lines(calls[i].content)
                result == calls[i].result
            IN  /\ (\A n \in 1..Len(lines) :
                        Trim(lines[n]) = <<>> \/ Trim(lines[n])[1] = "#") => result = <<>>
                /\ (/\ Len(lines) = 1
                    /\ Len(split_whitespace(lines[1])) \in {2, 3}
                    /\ \A n \in 1..2 : split_whitespace(lines[1])[n][1] = "/") =>
                        LET parts == split_whitespace(lines[1])
                            last == parts[Len(parts)]
                        IN  /\ Len(parts) = 2 =>
                                /\ Len(result) = 1
                                /\ result[1].from = parts[1] /\ result[1].to = parts[2]
                                /\ result[1].status = 301 /\ ~result[1].force
                            /\ (Len(parts) = 3 /\ IsStatus(last)) =>
                                /\ Len(result) = 1
                                /\ result[1].from = parts[1] /\ result[1].to = parts[2]
                                /\ result[1].status = DecimalValue(last) /\ ~result[1].force
                            /\ (/\ Len(parts) = 3
                                /\ last[Len(last)] = "!"
                                /\ IsStatus(Take(last, Len(last) - 1))) =>
                                /\ Len(result) = 1
                                /\ result[1].from = parts[1] /\ result[1].to = parts[2]
                                /\ result[1].status = DecimalValue(Take(last, Len(last) - 1))
                                /\ result[1].force

\* A line with a forced status, and a line with a plain one, were parsed.
C32_Witness ==
    \E i \in DOMAIN calls :
        /\ calls[i].fn = "parse_redirects_file"
        /\ Len(calls[i].result) = 1
        /\ calls[i].result[1].force
        /\ calls[i].result[1].status = 302
        /\ Len(calls[i].content) > Len(Trim(calls[i].content))

\* The rule applies to the request: its query conditions hold and its pattern
\* matches the path.
RuleApplies(rule, request_path, query_params) ==
    /\ rule.query_params.present =>
        /\ query_params.present
        /\ \A key \in DOMAIN rule.query_params.params :
            /\ key \in DOMAIN query_params.params
            /\ rule.query_params.params[key][1] # ":" =>
                    query_params.params[key] = rule.query_params.params[key]
    /\ RegexCaptures(rule.from_pattern, NormalizedPath(request_path)).ok

\* C40: the match returned is that of the first rule, in the order of the
\* file, that applies to the request, later rules not being used; a rule with
\* query conditions does not apply to a request without a query; None is
\* returned exactly when no rule applies.
C40_FirstMatchingRule ==
    \A i \in DOMAIN calls :
        calls[i].fn = "match_redirect_rule" =>
            LET rules == calls[i].rules
                applying == {n \in 1..Len(rules) :
                                RuleApplies(rules[n], calls[i].request_path,
                                            calls[i].query_params)}
            IN  /\ calls[i].result.kind = "none" <=> applying = {}
                /\ applying # {} =>
                    LET first == CHOOSE n \in applying : \A m \in applying : n <= m
                    IN  /\ calls[i].result =
                            RedirectMatch(rules[first],
                                RegexCaptures(rules[first].from_pattern,
                                    NormalizedPath(calls[i].request_path)).groups,
                                calls[i].query_params)
                        /\ ~calls[i].query_params.present =>
                                ~rules[first].query_params.present

\* Two rules of the file apply to the request and would give different
\* matches; the one of the first is returned.  And a rule with query
\* conditions was passed over for a request without a query.
C40_Witness ==
    \E i \in DOMAIN calls :
        /\ calls[i].fn = "match_redirect_rule"
        /\ Len(calls[i].rules) = 2
        /\ \A n \in 1..2 : RuleApplies(calls[i].rules[n], calls[i].request_path,
                                       calls[i].query_params)
        /\ calls[i].rules[1].to # calls[i].rules[2].to
        /\ calls[i].result.kind = "match"
        /\ calls[i].result.target_path = calls[i].rules[1].to

\* ------------------------------------------------------------------- serve

RedirectsName == <<"_", "r", "e", "d", "i", "r", "e", "c", "t", "s">>
IndexName == <<"i", "n", "d", "e", "x", ".", "h", "t", "m", "l">>

\* load_redirect_rules: the rules of output_dir/_redirects, none without the file.
load_redirect_rules(directory) ==
    IF directory.exists /\ <<RedirectsName>> \in DOMAIN directory.files
    THEN parse_redirects_file(directory.files[<<RedirectsName>>])
    ELSE <<>>

\* Uri::path: the text before the query.
UriPath(uri) == IF Contains(uri, "?") THEN Take(uri, Find(uri, "?") - 1) ELSE uri

\* The path under output_dir a request path names.
PathSegments(path) == SelectSeq(SplitAt(path, {"/"}, <<>>), LAMBDA piece : piece # <<>>)

NotFound == [status |-> 404, kind |-> "empty", body |-> <<>>]

\* ServeDir::call: the file at the path, the index.html of a directory, or
\* 404 Not Found.
serve_dir_call(dir, uri) ==
    LET path == UriPath(uri)
        segments == PathSegments(path)
        names_directory == path = <<>> \/ path[Len(path)] = "/"
    IN  IF ~dir.exists THEN NotFound
        ELSE IF ~names_directory /\ segments \in DOMAIN dir.files
        THEN [status |-> 200, kind |-> "file", body |-> dir.files[segments]]
        ELSE IF /\ segments = <<>> \/ segments \in dir.dirs
                /\ Append(segments, IndexName) \in DOMAIN dir.files
        THEN [status |-> 200, kind |-> "file", body |-> dir.files[Append(segments, IndexName)]]
        ELSE NotFound

\* The settings considered: none, and a listing with a custom 404 page.
SettingsValues ==
    {NoSettings,
     [present |-> TRUE, spa_mode |-> <<>>, directory_listing |-> TRUE,
      custom404 |-> <<"/", "b">>]}

\* serve_file_for_spa and serve_custom_404: the file read from output_dir.
ServeNamedFile(dir, file, status) ==
    IF dir.exists /\ PathSegments(file) \in DOMAIN dir.files
    THEN [status |-> status, kind |-> "file", body |-> dir.files[PathSegments(file)]]
    ELSE NotFound

\* Lines 391-427: no rule matched; the file, or the fallback of the settings.
ServeWithFallback(dir, path, site_settings) ==
    LET served == serve_dir_call(dir, path)
    IN  IF served.status = 200 THEN served
        ELSE IF site_settings.present /\ site_settings.spa_mode # <<>>
        THEN ServeNamedFile(dir, site_settings.spa_mode, 200)
        ELSE IF /\ site_settings.present /\ site_settings.directory_listing
                /\ dir.exists
                /\ PathSegments(path) = <<>> \/ PathSegments(path) \in dir.dirs
        THEN [status |-> 200, kind |-> "listing", body |-> PathSegments(path)]
        ELSE IF site_settings.present /\ site_settings.custom404 # <<>>
        THEN ServeNamedFile(dir, site_settings.custom404, 404)
        ELSE NotFound

\* Lines 334-388: the rule's status decides what is answered.
ApplyRedirect(dir, path, redirect_match) ==
    CASE redirect_match.status = 200 -> serve_dir_call(dir, redirect_match.target_path)
      [] redirect_match.status = 301 ->
            [status |-> 308, kind |-> "redirect", body |-> redirect_match.target_path]
      [] redirect_match.status = 302 ->
            [status |-> 307, kind |-> "redirect", body |-> redirect_match.target_path]
      [] redirect_match.status = 404 ->
            [serve_dir_call(dir, redirect_match.target_path) EXCEPT !.status = 404]
      [] OTHER -> serve_dir_call(dir, path)

\* A handler that looks for the file first whether the rule is forced or not.
handle_request_file_first(path, query_params, rules, site_settings, dir) ==
    LET redirect_match == match_redirect_rule(path, rules, query_params)
    IN  IF redirect_match.kind = "match"
        THEN IF serve_dir_call(dir, path).status = 200
             THEN serve_dir_call(dir, path)
             ELSE ApplyRedirect(dir, path, redirect_match)
        ELSE ServeWithFallback(dir, path, site_settings)

\* handle_request_with_redirects.  The targets considered parse as a Uri, so
\* the 500 of lines 348 and 381 does not arise.
handle_request_with_redirects(path, query_params, rules, site_settings, dir) ==
    LET redirect_match == match_redirect_rule(path, rules, query_params)
    IN  IF redirect_match.kind = "match"
        THEN IF ~redirect_match.force /\ serve_dir_call(dir, path).status = 200
             THEN serve_dir_call(dir, path)
             ELSE ApplyRedirect(dir, path, redirect_match)
        ELSE ServeWithFallback(dir, path, site_settings)

\* The operations of a commit on place.wisp.fs/<rkey>, on
\* place.wisp.settings/<rkey> and on other records.
SiteOps(msg) == {op \in msg.ops : op.path = "site"}

\* A handler that records the commit also when the pull failed.
handle_firehose_message_marks_failed(state, msg, pull, fetched) ==
    IF msg.kind # "commit" \/ msg.repo # "did"
    THEN [state EXCEPT !.pulled = "none"]
    ELSE LET has_site_update == SiteOps(msg) # {}
             has_settings_update == \E op \in msg.ops : op.path = "settings"
             should_update == msg.commit # state.last_cid
             has_create_or_update ==
                \E op \in SiteOps(msg) : op.action \in {"create", "update"}
             has_delete == \E op \in SiteOps(msg) : op.action = "delete"
             site ==
                IF has_site_update /\ should_update /\ has_create_or_update
                THEN [state EXCEPT !.last_cid = msg.commit,
                                   !.redirect_rules = IF pull.ok
                                                      THEN load_redirect_rules(pull.dir)
                                                      ELSE @,
                                   !.dir = pull.dir,
                                   !.pulled = IF pull.ok THEN "ok" ELSE "err"]
                ELSE IF has_site_update /\ should_update /\ has_delete
                THEN [state EXCEPT !.last_cid = msg.commit, !.pulled = "none"]
                ELSE [state EXCEPT !.pulled = "none"]
         IN  IF has_settings_update /\ fetched.ok
             THEN [site EXCEPT !.settings = fetched.settings]
             ELSE site

\* handle_firehose_message.  pull: what pull_site returns and leaves in
\* output_dir if it is called; fetched: what fetch_settings returns if it is
\* called.
handle_firehose_message(state, msg, pull, fetched) ==
    IF msg.kind # "commit" \/ msg.repo # "did"
    THEN [state EXCEPT !.pulled = "none"]
    ELSE LET has_site_update == SiteOps(msg) # {}
             has_settings_update == \E op \in msg.ops : op.path = "settings"
             should_update == msg.commit # state.last_cid
             has_create_or_update ==
                \E op \in SiteOps(msg) : op.action \in {"create", "update"}
             has_delete == \E op \in SiteOps(msg) : op.action = "delete"
             site ==
                IF has_site_update /\ should_update /\ has_create_or_update
                THEN IF pull.ok
                     THEN [state EXCEPT !.last_cid = msg.commit,
                                        !.redirect_rules = load_redirect_rules(pull.dir),
                                        !.dir = pull.dir,
                                        !.pulled = "ok"]
                     ELSE [state EXCEPT !.dir = pull.dir, !.pulled = "err"]
                ELSE IF has_site_update /\ should_update /\ has_delete
                THEN [state EXCEPT !.last_cid = msg.commit, !.pulled = "none"]
                ELSE [state EXCEPT !.pulled = "none"]
         IN  IF has_settings_update /\ fetched.ok
             THEN [site EXCEPT !.settings = fetched.settings]
             ELSE site

\* The _redirects files of the sites served.
ServeRedirects ==
    { \* "/a /b"
      <<"/", "a", " ", "/", "b">>,
      \* "/a /b 301!"
      <<"/", "a", " ", "/", "b", " ", "3", "0", "1", "!">>}

\* The sites served: a file b, a file a or none, and a _redirects file or none.
ServeRoots ==
    {DirectoryNode(redirects \o page \o <<Entry(<<"b">>, RemoteFile(2))>>) :
        redirects \in {<<>>} \cup {<<Entry(RedirectsName, RemoteFile(text))>> :
                                        text \in ServeRedirects},
        page \in {<<>>, <<Entry(<<"a">>, RemoteFile(1))>>}}

MaxMessages == 2
MaxCommits == 2
MaxVersions == 2

\* The firehose messages: commits of the served repository and of another,
\* with operations on the site record, the settings record or other records,
\* and messages that are no commits.
CommitOps ==
    {{[path |-> "site", action |-> "update"]},
     {[path |-> "site", action |-> "delete"]},
     {[path |-> "site", action |-> "delete"], [path |-> "site", action |-> "create"]},
     {[path |-> "settings", action |-> "update"]},
     {[path |-> "site", action |-> "update"], [path |-> "settings", action |-> "update"]},
     {[path |-> "other", action |-> "create"]}}

Messages ==
    {[kind |-> "commit", repo |-> "did", commit |-> commit, ops |-> ops] :
        commit \in 1..MaxCommits, ops \in CommitOps}
    \cup {[kind |-> "commit", repo |-> "other", commit |-> 1,
            ops |-> {[path |-> "site", action |-> "update"]}],
          [kind |-> "identity", repo |-> "did", commit |-> 0, ops |-> {}]}

\* What a pull of the remote record leaves in the directory.
PulledSnapshot(dir) ==
    LET staging == download_directory(fsRecord.root, extract_blob_map(fsRecord.root),
                                      IF dir.exists /\ dir.metadata.type = "meta"
                                      THEN dir.metadata.file_cids ELSE EmptyMap,
                                      dir, <<>>)
    IN  [ok |-> staging.ok,
         dir |-> [exists |-> TRUE, files |-> staging.files, dirs |-> staging.dirs,
                  metadata |-> SiteMetadata(recordVersion,
                                            FileCids(extract_blob_map(fsRecord.root)))]]

\* pull_site(did, rkey, output_dir) as one call: Ok with the destination as it
\* was when it is up to date, Ok with the new snapshot, or Err with the
\* destination as it was or removed (the rename after the removal failed).
PullSiteOutcomes ==
    (IF UpToDate THEN {[ok |-> TRUE, dir |-> destDir]}
     ELSE IF PulledSnapshot(destDir).ok THEN {[ok |-> TRUE, dir |-> PulledSnapshot(destDir).dir]}
     ELSE {})
    \cup {[ok |-> FALSE, dir |-> destDir]}
    \cup (IF destDir.exists /\ ~UpToDate THEN {[ok |-> FALSE, dir |-> NoDir]} ELSE {})

\* fetch_settings: the record read, or an error.
FetchSettingsOutcomes ==
    {[ok |-> TRUE, settings |-> value] : value \in SettingsValues}
    \cup {[ok |-> FALSE, settings |-> NoSettings]}

\* serve_site, lines 105-144: the output directory is created, the site
\* pulled, the settings fetched and the redirect rules loaded; last_cid is None.
ServeInit ==
    /\ \E root \in ServeRoots : fsRecord = FsRecord(root, count_files_in_directory(root))
    /\ subfsRecords = EmptyMap
    /\ nextTid = 1
    /\ localDir = LocalDir(<<>>)
    /\ dpc = "idle"
    /\ deploys = 0
    /\ lastDeployed = Absent
    /\ InitRun
    /\ dest_touched = FALSE
    /\ recordVersion = 1
    /\ destDir = [exists |-> TRUE,
                  files |-> download_directory(fsRecord.root, extract_blob_map(fsRecord.root),
                                               EmptyMap, EmptyDir, <<>>).files,
                  dirs |-> {},
                  metadata |-> SiteMetadata(1, FileCids(extract_blob_map(fsRecord.root)))]
    /\ tempDir = NoDir
    /\ ppc = "idle"
    /\ pulls = 0
    /\ InitPullRun
    /\ InitExpand
    /\ InitOther
    /\ last_cid = 0
    /\ redirect_rules = load_redirect_rules(destDir)
    /\ settings \in SettingsValues
    /\ response = NoResponse
    /\ handled = NoMessage

\* The owner deploys another version of the site.
RemoteChange ==
    /\ recordVersion < MaxVersions
    /\ \E root \in ServeRoots :
        /\ root # fsRecord.root
        /\ fsRecord' = FsRecord(root, count_files_in_directory(root))
    /\ recordVersion' = recordVersion + 1
    /\ UNCHANGED <<serveVars, calls, transferVars, expandVars, deployVars, subfsRecords, nextTid,
                   destDir, tempDir, ppc, pulls, dest_touched, pullRunVars>>

\* watch_firehose hands a message to handle_firehose_message (lines 470-474).
HandleFirehoseMessage ==
    /\ handled.seq < MaxMessages
    /\ \E msg \in Messages, pull \in PullSiteOutcomes, fetched \in FetchSettingsOutcomes :
        LET before == [last_cid |-> last_cid, redirect_rules |-> redirect_rules,
                       settings |-> settings, dir |-> destDir, pulled |-> "none"]
            after == handle_firehose_message(before, msg, pull, fetched)
        IN  /\ last_cid' = after.last_cid
            /\ redirect_rules' = after.redirect_rules
            /\ settings' = after.settings
            /\ destDir' = after.dir
            /\ handled' = [seq |-> handled.seq + 1, msg |-> msg, pulled |-> after.pulled,
                           before |-> before]
    /\ UNCHANGED <<response, calls, transferVars, expandVars, deployVars, storeVars,
                   recordVersion, tempDir, ppc, pulls, dest_touched, pullRunVars>>

\* The requests considered: two paths without a query.
ServePaths == {<<"/", "a">>, <<"/", "c">>}
ServeQueries == {NoQuery}

\* The router hands a request to handle_request_with_redirects (lines 150-157).
HandleRequest ==
    /\ \E path \in ServePaths, query_params \in ServeQueries :
        response' = [kind |-> "response", path |-> path, query_params |-> query_params,
                     redirect_match |-> match_redirect_rule(path, redirect_rules, query_params),
                     on_disk |-> serve_dir_call(destDir, path),
                     dir |-> destDir,
                     result |-> handle_request_with_redirects(path, query_params,
                                    redirect_rules, settings, destDir)]
    /\ UNCHANGED <<last_cid, redirect_rules, settings, handled, calls, transferVars,
                   expandVars, deployVars, storeVars, pullVars>>

ServeNext ==
    \/ RemoteChange
    \/ HandleFirehoseMessage
    \/ HandleRequest

ServeSpec == ServeInit /\ [][ServeNext]_vars

\* The output directories of the requests: absent, with the files a and b,
\* and with the file b alone.
ServedDirs ==
    {NoDir,
     [EmptyDir EXCEPT !.files = (<<<<"a">>>> :> 1) @@ (<<<<"b">>>> :> 2)],
     [EmptyDir EXCEPT !.files = (<<<<"b">>>> :> 2)]}

\* handle_request_with_redirects is called for a request, with the rules of a
\* _redirects file, the settings and the output directory.
RequestCall ==
    /\ Len(calls) < MaxRedirectCalls
    /\ \E content \in RedirectFiles, path \in RequestPaths,
          query_params \in {NoQuery, Query(<<"k">> :> <<"1">>)},
          site_settings \in SettingsValues, dir \in ServedDirs :
        calls' = Append(calls, [fn |-> "handle_request_with_redirects",
                                rules |-> parse_redirects_file(content),
                                path |-> path,
                                query_params |-> query_params,
                                settings |-> site_settings,
                                dir |-> dir,
                                result |-> handle_request_with_redirects(path, query_params,
                                               parse_redirects_file(content), site_settings, dir)])
    /\ UNCHANGED <<serveVars, storeVars, deployVars, pullVars, expandVars, transferVars>>

RedirectNext ==
    \/ ParseFileCall
    \/ MatchCall
    \/ RequestCall

RedirectSpec == PureInit /\ [][RedirectNext]_vars

\* The response is the redirect or rewrite of the match: a redirect to the
\* target, the target's file in place of the path's, or the target's file
\* with the status 404.
RedirectApplied(result, redirect_match, dir) ==
    CASE redirect_match.status = 200 ->
            result = serve_dir_call(dir, redirect_match.target_path)
      [] redirect_match.status = 404 ->
            /\ result.status = 404
            /\ result.body = serve_dir_call(dir, redirect_match.target_path).body
      [] OTHER ->
            /\ result.kind = "redirect"
            /\ result.body = redirect_match.target_path

\* C39 as stated: for a request that matches a rule that is not forced, the
\* file at the requested path is returned when serving it succeeds, and the
\* redirect or rewrite is applied only otherwise; for a forced rule the
\* redirect or rewrite is applied also when the file exists.
C39_ForcedAlwaysApplied ==
    \A i \in DOMAIN calls :
        calls[i].fn = "handle_request_with_redirects" =>
            LET redirect_match == match_redirect_rule(calls[i].path, calls[i].rules,
                                                      calls[i].query_params)
                on_disk == serve_dir_call(calls[i].dir, calls[i].path)
            IN  redirect_match.kind = "match" =>
                    /\ (~redirect_match.force /\ on_disk.status = 200) =>
                            calls[i].result = on_disk
                    /\ redirect_match.force =>
                            RedirectApplied(calls[i].result, redirect_match, calls[i].dir)

\* C39, amended: the same, the forced rule being applied when its status is
\* one of 200, 301, 302 and 404; with any other status the request is served
\* as if no rule had matched it, forced or not.
C39_ForcedAppliedForKnownStatus ==
    \A i \in DOMAIN calls :
        calls[i].fn = "handle_request_with_redirects" =>
            LET redirect_match == match_redirect_rule(calls[i].path, calls[i].rules,
                                                      calls[i].query_params)
                on_disk == serve_dir_call(calls[i].dir, calls[i].path)
            IN  redirect_match.kind = "match" =>
                    /\ (~redirect_match.force /\ on_disk.status = 200) =>
                            calls[i].result = on_disk
                    /\ (redirect_match.force /\ redirect_match.status \in {200, 301, 302, 404}) =>
                            RedirectApplied(calls[i].result, redirect_match, calls[i].dir)
                    /\ redirect_match.status \notin {200, 301, 302, 404} =>
                            calls[i].result = on_disk

\* A request for a file that exists matched a forced rule with status 301
\* and was answered with the redirect.
C39_Witness ==
    \E i \in DOMAIN calls :
        /\ calls[i].fn = "handle_request_with_redirects"
        /\ serve_dir_call(calls[i].dir, calls[i].path).status = 200
        /\ Len(calls[i].rules) = 1
        /\ calls[i].rules[1].force
        /\ calls[i].rules[1].status = 301
        /\ calls[i].result.kind = "redirect"
        /\ calls[i].result.body = calls[i].rules[1].to

\* The commit holds operations on the site record, and all of them delete it.
OnlyDeletesSite(msg) ==
    /\ SiteOps(msg) # {}
    /\ \A op \in SiteOps(msg) : op.action = "delete"

\* C36 as stated: last_cid becomes a commit's CID only when the pull for the
\* commit succeeded or the commit only deletes the site record; when the pull
\* fails last_cid and the redirect rules stay as they were; a commit of
\* another repository, or a commit on the site record whose CID is last_cid,
\* starts no pull and changes no state.
C36_CommitHandledOnce ==
    handled.seq > 0 =>
        /\ last_cid # handled.before.last_cid =>
            /\ last_cid = handled.msg.commit
            /\ handled.pulled = "ok" \/ OnlyDeletesSite(handled.msg)
        /\ handled.pulled = "err" =>
            /\ last_cid = handled.before.last_cid
            /\ redirect_rules = handled.before.redirect_rules
        /\ (\/ handled.msg.repo # "did"
            \/ SiteOps(handled.msg) # {} /\ handled.msg.commit = handled.before.last_cid) =>
                /\ handled.pulled = "none"
                /\ last_cid = handled.before.last_cid
                /\ redirect_rules = handled.before.redirect_rules
                /\ destDir = handled.before.dir
                /\ settings = handled.before.settings

\* C36, amended: the same, except that a commit of the served repository that
\* also holds an operation on the settings record has the settings fetched
\* again, whatever its CID.
C36_SiteStateHandledOnce ==
    handled.seq > 0 =>
        /\ last_cid # handled.before.last_cid =>
            /\ last_cid = handled.msg.commit
            /\ handled.pulled = "ok" \/ OnlyDeletesSite(handled.msg)
        /\ handled.pulled = "err" =>
            /\ last_cid = handled.before.last_cid
            /\ redirect_rules = handled.before.redirect_rules
        /\ (\/ handled.msg.repo # "did"
            \/ SiteOps(handled.msg) # {} /\ handled.msg.commit = handled.before.last_cid) =>
                /\ handled.pulled = "none"
                /\ last_cid = handled.before.last_cid
                /\ redirect_rules = handled.before.redirect_rules
                /\ destDir = handled.before.dir
                /\ (\/ handled.msg.repo # "did"
                    \/ \A op \in handled.msg.ops : op.path # "settings") =>
                        settings = handled.before.settings

\* After a commit was recorded, the pull for a commit with another CID
\* failed: last_cid is still that of the earlier commit.
C36_Witness ==
    /\ handled.seq = 2
    /\ handled.pulled = "err"
    /\ handled.before.last_cid # 0
    /\ handled.msg.commit # handled.before.last_cid
    /\ last_cid = handled.before.last_cid
    /\ redirect_rules = handled.before.redirect_rules

====
